---- MODULE Spec2Model ----
(***************************************************************************)
(* Verification model of three components of block2:                       *)
(*   - the determinant / CSF prefix trie   (src/block2/determinant.hpp)    *)
(*   - the delayed tensor-contraction dispatch (DelayedTensorFunctions)    *)
(*   - the Wick normal-ordering engine (WickExpr::normal_order_impl_new)   *)
(* Each component has its own specification over the shared variables.     *)
(***************************************************************************)
EXTENDS Integers, Sequences, FiniteSets, TLC

VARIABLES
    \* ---- TRIE / DeterminantTRIE (determinant.hpp) ----
    n_sites,        \* TRIE::n_sites
    enable_look_up, \* TRIE::enable_look_up
    su2,            \* TRUE: DeterminantTRIE<S, is_su2_t>, FALSE: is_sz_t
    data,           \* TRIE::data, node k is data[k + 1]
    dets,           \* TRIE::dets
    invs,           \* TRIE::invs, invs of node k is invs[k + 1]
    vals,           \* TRIE::vals
    tpc,            \* "idle" | "eval" (inside evaluate) | "failed" (fatal assertion / crash)
    est,            \* the locals of a running evaluate: ptrs, partials, det, ...
    earg,           \* the arguments mps and cutoff of a running evaluate
    neval,          \* history: evaluate calls since clear
    pushed,         \* history: determinants appended by push_back since clear
    evalFilled,     \* history: an evaluate appended to dets since clear
    last,           \* history: what the last trie operation did
    \* ---- DelayedTensorFunctions ----
    seq_mode,       \* opf->seq->mode: "None" | "Simple" | "Auto" | "Tasked"
    dlive,          \* storage currently allocated (forced copies, scratch, outputs)
    queue,          \* kernel calls queued in opf->seq
    tmpv,           \* contents accumulated in the scratch matrices
    nid,            \* number of buffers handed out
    dpc,            \* "ready" | "idle" (a call has returned) | "failed"
    ncall,          \* history: dispatch calls made
    dlog,           \* history: events of the last dispatch call
    dlast,          \* history: the last dispatch call and its inputs
    \* ---- WickExpr ----
    wx,             \* the parsed WickExpr: a sequence of WickString
    wr,             \* the WickExpr returned by the last call of expand
    wpc,            \* "idle" | "parsed" | "expanded"
    wlast,          \* history: the arguments of the last call
    \* ---- WickPermutation::complete_set ----
    pn,             \* the argument n
    pdef,           \* the argument def: the generators
    vwp,            \* the vector vwp (swp holds the same elements)
    pk,             \* the loop variable k, as a 1-based position of vwp
    ppc,            \* "idle" | "loop" | "done"
    \* ---- one WickTensor and the factor passed to sort ----
    tt,             \* the tensor, NoTensor before it is constructed
    tf,             \* the double passed by reference to sort
    thist,          \* history: <<tensor, factor>> before each call of sort
    \* ---- one call of a WickString operation ----
    sx,             \* *this
    sy,             \* the argument: the other string, or the definitions
    sr,             \* the returned value
    spc,            \* "idle" | the operation that has returned
    \* ---- one call of a function with an omp parallel for ----
    oin,            \* the call: function, terms, arguments, ntg, static schedule
    odone,          \* odone[tid]: iterations thread tid has completed
    oslots,         \* r (one WickExpr per thread) or sorted (one string per k)
    olog,           \* history: the writes to oslots in the order they happened
    ores,           \* the returned terms
    opc,            \* "idle" | "parallel" | "returned"
    \* ---- one call of normal_order_impl_new, one loop iteration per step ----
    nc,             \* the string, the arguments and the tables built before the loop
    nst,            \* que, cur_idxs, acc_sign, ot_tensors, r.terms
    npc             \* "idle" | "loop" | "done"

tvars == <<n_sites, enable_look_up, su2, data, dets, invs, vals, tpc,
           est, earg, neval, pushed, evalFilled, last>>

dvars == <<seq_mode, dlive, queue, tmpv, nid, dpc, ncall, dlog, dlast>>

wvars == <<wx, wr, wpc, wlast>>

pvars == <<pn, pdef, vwp, pk, ppc>>

tnvars == <<tt, tf, thist>>

svars == <<sx, sy, sr, spc>>

ovars == <<oin, odone, oslots, olog, ores, opc>>

nvars == <<nc, nst, npc>>

vars == <<tvars, dvars, wvars, pvars, tnvars, svars, ovars, nvars>>

\* what the operations of one component leave alone
nontrie == <<dvars, wvars, pvars, tnvars, svars, ovars, nvars>>
nondelayed == <<tvars, wvars, pvars, tnvars, svars, ovars, nvars>>
nonwick == <<tvars, dvars, pvars, tnvars, svars, ovars, nvars>>
nonperm == <<tvars, dvars, wvars, tnvars, svars, ovars, nvars>>
nontensor == <<tvars, dvars, wvars, pvars, svars, ovars, nvars>>
nonstring == <<tvars, dvars, wvars, pvars, tnvars, ovars, nvars>>
nonomp == <<tvars, dvars, wvars, pvars, tnvars, svars, nvars>>
nonorder == <<tvars, dvars, wvars, pvars, tnvars, svars, ovars>>

----------------------------------------------------------------------------
(* Bounds of the model *)
MaxSites == 2      \* n_sites ranges over 1..MaxSites
MaxPush == 2       \* push_back calls per trie between two clears
MaxEval == 2       \* evaluate calls per trie between two clears
MaxLow == 1        \* site states of the MPS with the smaller amplitude

MaxCalls == 2      \* dispatch calls per run
MaxOps == 2        \* operands summed by a SumProd node
NPks == 2          \* pks.count() in tensor_product_partial_multiply

MaxTensors == 2    \* operators in a parsed WickString
MaxPairs == 4      \* k of pair_symmetric(k, hermitian)
MaxSorts == 2      \* calls of sort on one tensor
MaxDeltas == 2     \* delta tensors in a string given to simplify_delta
MaxTerms == 2      \* terms of an expression given to simplify_merge
MaxThreads == 3    \* ntg, the threads of a parallel region
MaxIter == 3       \* terms.size(), the iterations of a parallel for
MaxOperators == 4  \* creation / destroy operators in a string to normal order

(* Program constants *)
L == 4             \* template <typename D, uint8_t L = 4> struct TRIE

Labels == 0 .. (L - 1)

Range(s) == {s[i] : i \in 1 .. Len(s)}

RECURSIVE SeqsOfLen(_, _)
SeqsOfLen(S, n) ==
    IF n = 0 THEN {<<>>}
    ELSE {Append(s, x) : s \in SeqsOfLen(S, n - 1), x \in S}

RECURSIVE Pow2(_)
Pow2(n) == IF n = 0 THEN 1 ELSE 2 * Pow2(n - 1)

----------------------------------------------------------------------------
(* TRIE *)

ZeroNode == [j \in Labels |-> 0]

\* vector<int>::resize(n): keeps a prefix, pads with 0
Resize(v, n) == [i \in 1 .. n |-> IF i <= Len(v) THEN v[i] ELSE 0]

\* the walk of push_back: follows det from node cur, creating absent children
RECURSIVE PushWalk(_, _, _, _)
PushWalk(d, cur, det, i) ==
    IF i > Len(det) THEN [data |-> d, cur |-> cur]
    ELSE LET j == det[i] IN
         IF d[cur + 1][j] = 0
         THEN PushWalk(Append([d EXCEPT ![cur + 1][j] = Len(d)], ZeroNode),
                       Len(d), det, i + 1)
         ELSE PushWalk(d, d[cur + 1][j], det, i + 1)

\* the look-up loop shared by push_back and evaluate:
\* invs[data[cur][j]] = cur along the path of det
SetInvs_Skipped(iv, d, det, cur, i) == iv

RECURSIVE SetInvs(_, _, _, _, _)
SetInvs(iv, d, det, cur, i) ==
    IF i > Len(det) THEN iv
    ELSE LET nxt == d[cur + 1][det[i]] IN
         SetInvs([iv EXCEPT ![nxt + 1] = cur], d, det, nxt, i + 1)

\* assert(dets.size() == 0 || cur > dets.back())
PushBackAssert_Dropped(ds, cur) == TRUE

PushBackAssert(ds, cur) == Len(ds) = 0 \/ cur > ds[Len(ds)]

\* the walk of find: 0 - 1 when a child is absent, else the node reached
RECURSIVE FindWalk(_, _, _, _)
FindWalk(d, cur, det, i) ==
    IF i > Len(det) THEN cur
    ELSE IF d[cur + 1][det[i]] = 0 THEN 0 - 1
    ELSE FindWalk(d, d[cur + 1][det[i]], det, i + 1)

\* std::lower_bound over ds[first+1 .. first+len] (0-based first), by halving
RECURSIVE LowerBound(_, _, _, _)
LowerBound(ds, first, len, val) ==
    IF len <= 0 THEN first
    ELSE LET half == len \div 2
             mid == first + half
         IN IF ds[mid + 1] < val
            THEN LowerBound(ds, mid + 1, len - half - 1, val)
            ELSE LowerBound(ds, first, half, val)

\* the answer computed from the leaf reached: idx if dets[idx] == cur
FindResult_NoCheck(ds, cur) ==
    LET idx == LowerBound(ds, 0, Len(ds), cur) IN
    IF idx < Len(ds) THEN idx ELSE 0 - 1

FindResult(ds, cur) ==
    LET idx == LowerBound(ds, 0, Len(ds), cur) IN
    IF idx < Len(ds) /\ ds[idx + 1] = cur THEN idx ELSE 0 - 1

find(d, ds, det) ==
    LET cur == FindWalk(d, 0, det, 1) IN
    IF cur = 0 - 1 THEN 0 - 1 ELSE FindResult(ds, cur)

\* the branch label j of node cur below its parent ir (first j that matches)
ChildLabel(d, ir, cur) ==
    IF \E j \in Labels : d[ir + 1][j] = cur
    THEN CHOOSE j \in Labels :
            /\ d[ir + 1][j] = cur
            /\ \A k \in Labels : k < j => d[ir + 1][k] # cur
    ELSE 0

\* operator[]: rebuilds the determinant of dets[idx] through invs
RECURSIVE LookupWalk(_, _, _, _, _)
LookupWalk(d, iv, cur, i, r) ==
    IF i < 1 THEN r
    ELSE LET ir == iv[cur + 1] IN
         LookupWalk(d, iv, ir, i - 1, [r EXCEPT ![i] = ChildLabel(d, ir, cur)])

Lookup(d, ds, iv, n, idx) ==
    LookupWalk(d, iv, ds[idx + 1], n, [i \in 1 .. n |-> 0])

----------------------------------------------------------------------------
(* The MPS consumed by evaluate (UnfusedMPS): a symmetry-adapted tensor     *)
(* train.  Quantum numbers are <<n, t>>: particle number and 2*Sz (sz) or   *)
(* 2*S (su2).  Every bond has dimension 1 per sector; a block value v       *)
(* stands for the amplitude v / 2, so an amplitude over n_sites sites and   *)
(* the cutoff are integers in units of 2^-n_sites.                          *)

Vacuum == <<0, 0>>

\* site basis states: data[j] (sz: j = 0..3) or data[jd] (su2: jd = 0..2)
SiteStates(s) == IF s THEN 0 .. 2 ELSE Labels

\* ket sectors a site state couples a bra sector to
\* sz : 0 (empty) 1 (alpha) 2 (beta) 3 (double)
\* su2: 0 (empty) 1 (singly occupied, S +- 1/2) 2 (double)
Kets(s, bra, jd) ==
    IF s
    THEN CASE jd = 0 -> {bra}
           [] jd = 1 -> {<<bra[1] + 1, bra[2] + 1>>} \cup
                        (IF bra[2] >= 1 THEN {<<bra[1] + 1, bra[2] - 1>>} ELSE {})
           [] OTHER -> {<<bra[1] + 2, bra[2]>>}
    ELSE CASE jd = 0 -> {bra}
           [] jd = 1 -> {<<bra[1] + 1, bra[2] + 1>>}
           [] jd = 2 -> {<<bra[1] + 1, bra[2] - 1>>}
           [] OTHER -> {<<bra[1] + 2, bra[2]>>}

\* sectors reachable from q over r further sites
RECURSIVE ReachQ(_, _, _)
ReachQ(s, q, r) ==
    IF r = 0 THEN {q}
    ELSE UNION {ReachQ(s, k, r - 1) :
                    k \in UNION {Kets(s, q, jd) : jd \in SiteStates(s)}}

\* mps->tensors[d]->data[jd]: the blocks ((bra, ket), value) of site d whose
\* bra is in bras; a block exists when its ket sector can still reach
\* mps->info->target over the remaining sites
Blocks(s, n, mps, d, jd, bras) ==
    UNION {{[bra |-> b, ket |-> k, val |-> IF jd \in mps.low THEN 1 ELSE 2] :
                k \in {x \in Kets(s, b, jd) :
                          mps.target \in ReachQ(s, x, n - d - 1)}} :
           b \in bras}

Subsets(S, k) == {T \in SUBSET S : Cardinality(T) <= k}

\* target sectors: n_sites or n_sites - 1 particles
Targets(s, n) == {q \in ReachQ(s, Vacuum, n) : q[1] \in {n - 1, n}}

\* the MPS handed to evaluate: its target and the site states whose blocks
\* carry the amplitude 1/2 instead of 1
MPSs(s, n) == [target : Targets(s, n), low : Subsets(SiteStates(s), MaxLow)]

\* cutoff, in units of 2^-n_sites: 0 and 1
Cutoffs(n) == {0, Pow2(n)}

\* determinants with n_sites particles (labels 0, 1, 2, 3 hold 0, 1, 1, 2)
RECURSIVE Occ(_, _)
Occ(det, i) ==
    IF i > Len(det) THEN 0
    ELSE (CASE det[i] = 0 -> 0 [] det[i] = 3 -> 2 [] OTHER -> 1) + Occ(det, i + 1)

RECURSIVE SumOver(_, _)
SumOver(S, f) ==
    IF S = {} THEN 0
    ELSE LET x == CHOOSE y \in S : TRUE IN f[x] + SumOver(S \ {x}, f)

----------------------------------------------------------------------------
(* DeterminantTRIE::evaluate *)

\* children of node cur that were 0 get fresh nodes, labels ascending
RECURSIVE FillChildren(_, _, _)
FillChildren(d, cur, jj) ==
    IF jj >= L THEN d
    ELSE IF d[cur + 1][jj] = 0
         THEN FillChildren(Append([d EXCEPT ![cur + 1][jj] = Len(d)], ZeroNode),
                           cur, jj + 1)
         ELSE FillChildren(d, cur, jj + 1)

\* ptrs.push(make_tuple(data[cur][jj], jj, depth)) for the non-zero children
RECURSIVE PushChildren(_, _, _, _, _)
PushChildren(ptrs, d, cur, jj, depth) ==
    IF jj >= L THEN ptrs
    ELSE IF d[cur + 1][jj] # 0
         THEN PushChildren(Append(ptrs, <<d[cur + 1][jj], jj, depth>>),
                           d, cur, jj + 1, depth)
         ELSE PushChildren(ptrs, d, cur, jj + 1, depth)

\* the partial map of the child: row vector times the site tensor slice
ChildPartial(s, n, mps, pmp, j, d) ==
    LET jd == IF s /\ j >= 2 THEN j - 1 ELSE j
        blks == {m \in Blocks(s, n, mps, d, jd, DOMAIN pmp) :
                    ~(s /\ jd = 1 /\
                      ~((j = 1 /\ m.ket[2] > m.bra[2]) \/
                        (j = 2 /\ m.ket[2] < m.bra[2])))}
    IN [k \in {m.ket : m \in blks} |->
            LET bk == {m \in blks : m.ket = k}
            IN SumOver(bk, [m \in bk |-> pmp[m.bra] * m.val])]

\* sqrt(sqsum) < cutoff, for the partial map of depth d + 1
BelowCutoff(n, cmp, d, cutoff) ==
    /\ cutoff # 0
    /\ SumOver(DOMAIN cmp, [k \in DOMAIN cmp |-> cmp[k] * cmp[k]])
           * Pow2(2 * (n - d - 1)) < cutoff * cutoff

\* where evaluate stores the amplitude of leaf cur when dets was given
ValSlot(ds, cur) == LowerBound(ds, 0, Len(ds), cur)

\* the state before the first iteration (lines 164-182 / 281-299)
EvalStart(d, ds, iv, n) ==
    LET has == Len(ds) # 0
        d1 == IF has THEN d ELSE FillChildren(d, 0, 0)
    IN [data |-> d1, dets |-> ds, invs |-> iv,
        vals |-> [i \in 1 .. Len(ds) |-> 0],
        has_dets |-> has,
        ptrs |-> PushChildren(<<>>, d1, 0, 0, 0),
        partials |-> <<(Vacuum :> 1)>>,
        det |-> [i \in 1 .. n |-> 0],
        bad |-> FALSE, oob |-> FALSE,
        reached |-> <<>>, visited |-> <<>>, pruned |-> {}, polls |-> 0]

Resized_Kept(partials, d) == partials

\* partials.resize(d + 1)
Resized(partials, d) == SubSeq(partials, 1, d + 1)

\* one iteration of the depth-first loop; polls counts check_signal_()(),
\* pruned the nodes left by one of the two continue statements
EvalStep(st, s, n, look, mps, cutoff) ==
    LET p == st.ptrs[Len(st.ptrs)]
        cur == p[1]
        j == p[2]
        d == p[3]
        det1 == [st.det EXCEPT ![d + 1] = j]
        pmp == st.partials[d + 1]
        cmp == ChildPartial(s, n, mps, pmp, j, d)
        parts == Append(Resized(st.partials, d), cmp)
        popped == SubSeq(st.ptrs, 1, Len(st.ptrs) - 1)
        st1 == [st EXCEPT !.det = det1, !.partials = parts, !.ptrs = popped,
                          !.visited = Append(@, cur), !.polls = @ + 1]
    IN IF DOMAIN cmp = {} THEN [st1 EXCEPT !.pruned = @ \cup {cur}]
       ELSE IF BelowCutoff(n, cmp, d, cutoff) THEN [st1 EXCEPT !.pruned = @ \cup {cur}]
       ELSE IF d = n - 1
       THEN IF ~(Cardinality(DOMAIN cmp) = 1 /\ mps.target \in DOMAIN cmp)
            THEN [st1 EXCEPT !.bad = TRUE]
            ELSE LET v == cmp[mps.target] IN
                 IF ~st.has_dets
                 THEN [st1 EXCEPT
                         !.dets = Append(@, cur),
                         !.vals = Append(@, v),
                         !.invs = IF look
                                  THEN SetInvs(Resize(@, Len(st.data)),
                                               st.data, det1, 0, 1)
                                  ELSE @,
                         !.reached = Append(@, [leaf |-> cur, val |-> v,
                                                slot |-> Len(st.dets)])]
                 ELSE LET idx == ValSlot(st.dets, cur) IN
                      [st1 EXCEPT
                         !.vals = IF idx < Len(@)
                                  THEN [@ EXCEPT ![idx + 1] = v] ELSE @,
                         !.oob = @ \/ idx >= Len(st.vals),
                         !.reached = Append(@, [leaf |-> cur, val |-> v,
                                                slot |-> idx])]
       ELSE LET d2 == IF st.has_dets THEN st.data
                      ELSE FillChildren(st.data, cur, 0)
            IN [st1 EXCEPT !.data = d2,
                           !.ptrs = PushChildren(popped, d2, cur, 0, d + 1)]

RECURSIVE EvalLoop(_, _, _, _, _, _)
EvalLoop(st, s, n, look, mps, cutoff) ==
    IF Len(st.ptrs) = 0 \/ st.bad THEN st
    ELSE EvalLoop(EvalStep(st, s, n, look, mps, cutoff), s, n, look, mps, cutoff)

----------------------------------------------------------------------------
(* Operations of the trie *)

AllDets(n) == SeqsOfLen(Labels, n)

\* the determinants handed to push_back
PushDets(n) == {det \in AllDets(n) : Occ(det, 1) = n}

\* no evaluate is running
NoEval == [data |-> <<>>, dets |-> <<>>, invs |-> <<>>, vals |-> <<>>,
           has_dets |-> FALSE, ptrs |-> <<>>, partials |-> <<>>, det |-> <<>>,
           bad |-> FALSE, oob |-> FALSE, reached |-> <<>>, visited |-> <<>>,
           pruned |-> {}, polls |-> 0]

NoArg == [mps |-> [target |-> Vacuum, low |-> {}], cutoff |-> 0]

NoOp == [op |-> "none", det |-> <<>>, leaf |-> 0, leafExisted |-> FALSE, wasPresent |-> FALSE,
         ok |-> TRUE, has_dets |-> FALSE, nodesAdded |-> FALSE,
         detsAdded |-> FALSE, reached |-> <<>>, dets0 |-> <<>>]

InitTrie ==
    /\ n_sites \in 1 .. MaxSites
    /\ enable_look_up \in BOOLEAN
    /\ su2 \in BOOLEAN
    /\ data = <<ZeroNode>>
    /\ dets = <<>>
    /\ invs = <<>>
    /\ vals = <<>>
    /\ tpc = "idle"
    /\ est = NoEval
    /\ earg = NoArg
    /\ neval = 0
    /\ pushed = <<>>
    /\ evalFilled = FALSE
    /\ last = NoOp

\* TRIE::clear
Clear ==
    /\ tpc = "idle"
    /\ data' = <<ZeroNode>>
    /\ dets' = <<>>
    /\ invs' = <<>>
    /\ vals' = <<>>
    /\ neval' = 0
    /\ pushed' = <<>>
    /\ evalFilled' = FALSE
    /\ last' = [NoOp EXCEPT !.op = "clear"]
    /\ UNCHANGED <<n_sites, enable_look_up, su2, tpc, est, earg, nontrie>>

\* TRIE::push_back
PushBack(det) ==
    /\ tpc = "idle"
    /\ Len(pushed) < MaxPush
    /\ LET w == PushWalk(data, 0, det, 1)
           leaf0 == FindWalk(data, 0, det, 1)
           ok == PushBackAssert(dets, w.cur)
       IN /\ data' = w.data
          /\ tpc' = IF ok THEN "idle" ELSE "failed"
          /\ dets' = IF ok THEN Append(dets, w.cur) ELSE dets
          /\ invs' = IF ok /\ enable_look_up
                     THEN SetInvs(Resize(invs, Len(w.data)), w.data, det, 0, 1)
                     ELSE invs
          /\ pushed' = IF ok THEN Append(pushed, det) ELSE pushed
          /\ last' = [NoOp EXCEPT !.op = "push_back", !.det = det, !.leaf = w.cur,
                                  !.leafExisted = (leaf0 # 0 - 1),
                                  !.wasPresent = (leaf0 # 0 - 1 /\ leaf0 \in Range(dets)),
                                  !.ok = ok, !.dets0 = dets]
    /\ UNCHANGED <<n_sites, enable_look_up, su2, vals, est, earg, neval, evalFilled,
                   nontrie>>

\* DeterminantTRIE::evaluate; a store past the end of vals is undefined
\* behaviour: the run either goes on with vals untouched or crashes
EvalFinish(st) ==
    /\ \E crash \in (IF st.oob THEN BOOLEAN ELSE {FALSE}) :
          tpc' = IF st.bad \/ crash THEN "failed" ELSE "idle"
    /\ data' = st.data
    /\ dets' = st.dets
    /\ invs' = st.invs
    /\ vals' = st.vals
    /\ evalFilled' = (evalFilled \/ Len(st.dets) # Len(dets))
    /\ last' = [NoOp EXCEPT !.op = "evaluate",
                            !.has_dets = st.has_dets,
                            !.ok = ~st.bad,
                            !.nodesAdded = (Len(st.data) # Len(data)),
                            !.detsAdded = (st.dets # dets),
                            !.reached = st.reached,
                            !.dets0 = dets]
    /\ neval' = neval + 1
    /\ est' = NoEval
    /\ earg' = NoArg
    /\ UNCHANGED <<n_sites, enable_look_up, su2, pushed, nontrie>>

Evaluate(mps, cutoff) ==
    /\ tpc = "idle"
    /\ neval < MaxEval
    /\ EvalFinish(EvalLoop(EvalStart(data, dets, invs, n_sites),
                           su2, n_sites, enable_look_up, mps, cutoff))

\* evaluate, one iteration of the depth-first loop per step: the entry
EvalBegin(mps, cutoff) ==
    /\ tpc = "idle"
    /\ neval < MaxEval
    /\ tpc' = "eval"
    /\ est' = EvalStart(data, dets, invs, n_sites)
    /\ earg' = [mps |-> mps, cutoff |-> cutoff]
    /\ UNCHANGED <<n_sites, enable_look_up, su2, data, dets, invs, vals,
                   neval, pushed, evalFilled, last, nontrie>>

\* while (!ptrs.empty())
EvalIterate ==
    /\ tpc = "eval"
    /\ Len(est.ptrs) # 0 /\ ~est.bad
    /\ est' = EvalStep(est, su2, n_sites, enable_look_up, earg.mps, earg.cutoff)
    /\ UNCHANGED <<n_sites, enable_look_up, su2, data, dets, invs, vals, tpc,
                   earg, neval, pushed, evalFilled, last, nontrie>>

\* the end of the loop, or the failed assertion of a leaf
EvalReturn ==
    /\ tpc = "eval"
    /\ Len(est.ptrs) = 0 \/ est.bad
    /\ EvalFinish(est)

\* the MPS of the traversals taken step by step: the blocks of the singly
\* occupied site state 1 carry the smaller amplitude, or none does
StepMPSs(s, n) == {mps \in MPSs(s, n) : mps.low \subseteq {1}}

\* the determinants are pushed first, then evaluate is called
NextEvaluate ==
    \/ neval = 0 /\ \E det \in PushDets(n_sites) : PushBack(det)
    \/ \E mps \in StepMPSs(su2, n_sites), cutoff \in Cutoffs(n_sites) :
          EvalBegin(mps, cutoff)
    \/ EvalIterate
    \/ EvalReturn

NextTrie ==
    \/ Clear
    \/ \E det \in PushDets(n_sites) : PushBack(det)
    \/ \E mps \in MPSs(su2, n_sites), cutoff \in Cutoffs(n_sites) :
          Evaluate(mps, cutoff)


----------------------------------------------------------------------------
(* DelayedTensorFunctions: storage, the kernel and its sequencing object.   *)
(* The kernel (OperatorFunctions) and opf->seq are collaborators of the     *)
(* dispatch layer: a kernel call is either executed at once or queued until *)
(* simple_perform / auto_perform.                                           *)

Null == "null"
Keys == {"X", "Y", "I"}
Status == {"absent", "mat", "delayed"}
KeyIx(k) == CASE k = "X" -> 1 [] k = "Y" -> 2 [] OTHER -> 3

\* storage of a matrix owned by an operand map (never freed by the dispatch)
NoBuf == <<"map", 0>>
OutBuf == <<"out", 0>>

Content(side, key) == [src |-> side, key |-> key, acc |-> <<>>]
Garbage == Content("garbage", "")
NoOperand == [buf |-> NoBuf, val |-> Content("none", "")]
NoCall == [k |-> "none", conj |-> 0, factor |-> 0, l |-> NoOperand,
           r |-> NoOperand, out |-> NoBuf, n |-> 0]

Event(ev, buf, call, lv, rv, stale) ==
    [ev |-> ev, buf |-> buf, call |-> call, lv |-> lv, rv |-> rv, stale |-> stale]

Fail(m, kind) == IF m.fail = "none" THEN [m EXCEPT !.fail = kind] ELSE m

\* SparseMatrix::allocate
Allocate(m, buf) ==
    IF m.fail # "none" THEN m
    ELSE [m EXCEPT !.live = @ \cup {buf},
                   !.tmpv = IF buf[1] = "tmp" THEN (buf :> <<>>) @@ @ ELSE @,
                   !.log = Append(@, Event("alloc", buf, NoCall, Garbage, Garbage, {}))]

Deallocate_Leak(m, buf) == m

\* SparseMatrix::deallocate
Deallocate(m, buf) ==
    IF m.fail # "none" THEN m
    ELSE [m EXCEPT !.live = @ \ {buf},
                   !.log = Append(@, Event("dealloc", buf, NoCall, Garbage, Garbage, {}))]

\* if (dr) rmat->deallocate();
DeallocIf_Kept(m, d, buf) == m

DeallocIf(m, d, buf) == IF d THEN Deallocate(m, buf) ELSE m

\* lmat = dl ? dynamic_pointer_cast<DelayedSparseMatrix<S>>(lmat)->build() : lmat
\* the operand the kernel is handed ...
ForceOperand(m, d, side, key) ==
    [buf |-> IF d THEN <<"forced", m.nid + 1>> ELSE NoBuf, val |-> Content(side, key)]

\* ... and the effect of build() on the storage
Force(m, d) ==
    IF m.fail # "none" \/ ~d THEN m
    ELSE [m EXCEPT !.nid = @ + 1,
                   !.live = @ \cup {<<"forced", m.nid + 1>>},
                   !.log = Append(@, Event("build", <<"forced", m.nid + 1>>,
                                           NoCall, Garbage, Garbage, {}))]

\* what a kernel reads from an operand: its contents, or, from storage that
\* was freed, either the old contents or anything else (m.g)
ReadVal(m, o) ==
    LET c == IF o.buf[1] = "tmp" /\ o.buf \in DOMAIN m.tmpv
             THEN [o.val EXCEPT !.acc = m.tmpv[o.buf]] ELSE o.val
    IN IF o.buf = NoBuf \/ o.buf \in m.live THEN c
       ELSE IF m.g THEN Garbage ELSE c

\* the kernel executes a call
Exec(m, call) ==
    LET lv == ReadVal(m, call.l)
        rv == ReadVal(m, call.r)
        stale == {b \in {call.l.buf, call.r.buf} : b # NoBuf /\ b \notin m.live}
    IN [m EXCEPT !.log = Append(@, Event("exec", NoBuf, call, lv, rv, stale)),
                 !.tmpv = IF call.out \in DOMAIN @
                          THEN [@ EXCEPT ![call.out] =
                                   Append(@, [factor |-> call.factor,
                                              conj |-> call.conj, val |-> lv])]
                          ELSE @]

\* whether opf->seq holds the call back: Auto queues every kernel call until
\* auto_perform, Simple queues iadd until simple_perform
Queued(mode, k) == mode = "Auto" \/ (mode = "Simple" /\ k = "iadd")

\* a kernel call made by the dispatch layer
Issue(m, call) ==
    IF m.fail # "none" THEN m
    ELSE LET m1 == [m EXCEPT !.log = Append(@, Event("issue", NoBuf, call,
                                                      Garbage, Garbage, {}))]
         IN IF Queued(m.mode, call.k)
            THEN [m1 EXCEPT !.queue = Append(@, call)]
            ELSE Exec(m1, call)

\* opf->seq->simple_perform() / auto_perform(): runs the queued calls in order
RECURSIVE Perform(_)
Perform(m) ==
    IF m.fail # "none" \/ Len(m.queue) = 0 THEN m
    ELSE Perform(Exec([m EXCEPT !.queue = Tail(@)], Head(m.queue)))

\* if (opf->seq->mode == SeqTypes::Auto) opf->seq->auto_perform();
AutoPerformCall(m) ==
    IF m.fail # "none" \/ m.mode # "Auto" THEN m
    ELSE Perform([m EXCEPT !.log = Append(@, Event("auto_perform", NoBuf, NoCall,
                                                   Garbage, Garbage, {}))])

KCall(m, k, conj, factor, l, r, out) ==
    [k |-> k, conj |-> conj, factor |-> factor, l |-> l, r |-> r,
     out |-> out, n |-> m.n]

----------------------------------------------------------------------------
(* DelayedTensorFunctions: symbolic expressions and the dispatch operations *)

Expr(type, a, b, conj, factor, ops, conjs, strings) ==
    [type |-> type, a |-> a, b |-> b, conj |-> conj, factor |-> factor,
     ops |-> ops, conjs |-> conjs, strings |-> strings]

Zero == Expr("Zero", Null, Null, 0, 0, <<>>, <<>>, <<>>)
Elem(key, factor) == Expr("Elem", key, Null, 0, factor, <<>>, <<>>, <<>>)
Prod(a, b, conj, factor) == Expr("Prod", a, b, conj, factor, <<>>, <<>>, <<>>)
SumProd(a, b, conj, factor, ops, conjs) ==
    Expr("SumProd", a, b, conj, factor, ops, conjs, <<>>)
Sum(strings) == Expr("Sum", Null, Null, 0, 0, <<>>, <<>>, strings)

\* lop.count(key) != 0
Count(map, key) == key \in DOMAIN map /\ map[key] # "absent"

BoolInt(b) == IF b THEN 1 ELSE 0

\* case OpTypes::Prod of tensor_product, tensor_product_multiply and
\* tensor_product_diagonal; k is the kernel operation the case calls
ProdNode(m, op, lop, rop, k, out) ==
    IF op.b = Null THEN Fail(m, "assert")
    ELSE IF ~(Count(lop, op.a) /\ Count(rop, op.b)) THEN Fail(m, "assert")
    ELSE LET dl == lop[op.a] = "delayed"
             dr == rop[op.b] = "delayed"
             lmat == ForceOperand(m, dl, "l", op.a)
             m1 == Force(m, dl)
             rmat == ForceOperand(m1, dr, "r", op.b)
             m2 == Force(m1, dr)
             m3 == Issue(m2, KCall(m2, k, op.conj, op.factor, lmat, rmat, out))
         IN DeallocIf(DeallocIf(m3, dr, rmat.buf), dl, lmat.buf)

SumProdLoop_Skip(m, op, omap, side, tmp, i) == m

\* the accumulation loop of case OpTypes::SumProd (lines 361-375 / 381-395)
RECURSIVE SumProdLoop(_, _, _, _, _, _)
SumProdLoop(m, op, omap, side, tmp, i) ==
    IF m.fail # "none" \/ i > Len(op.ops) THEN m
    ELSE IF ~Count(omap, op.ops[i].a) THEN Fail(m, "throw")
    ELSE LET d == omap[op.ops[i].a] = "delayed"
             xmat == ForceOperand(m, d, side, op.ops[i].a)
             m1 == Force(m, d)
             m2 == Issue(m1, KCall(m1, "iadd", BoolInt(op.conjs[i]),
                                   op.factor * op.ops[i].factor,
                                   xmat, NoOperand, tmp))
             m3 == IF m.mode = "Simple" THEN Perform(m2) ELSE m2
         IN SumProdLoop(DeallocIf(m3, d, xmat.buf), op, omap, side, tmp, i + 1)

\* case OpTypes::SumProd of tensor_product
SumProdNode(m, op, lop, rop, out) ==
    IF (op.a = Null) = (op.b = Null) THEN Fail(m, "assert")
    ELSE IF Len(op.ops) = 0 THEN Fail(m, "assert")
    ELSE LET right == op.b = Null
             omap == IF right THEN rop ELSE lop
             fmap == IF right THEN lop ELSE rop
             fkey == IF right THEN op.a ELSE op.b
         IN IF ~(Count(fmap, fkey) /\ Count(omap, op.ops[1].a))
            THEN Fail(m, "assert")
            ELSE LET tmp == <<"tmp", m.nid + 1>>
                     m1 == Allocate([m EXCEPT !.nid = @ + 1], tmp)
                     m2 == SumProdLoop(m1, op, omap,
                                       IF right THEN "r" ELSE "l", tmp, 1)
                     d == fmap[fkey] = "delayed"
                     fmat == ForceOperand(m2, d, IF right THEN "l" ELSE "r", fkey)
                     tmat == [buf |-> tmp, val |-> Content("tmp", "")]
                     m3 == Force(m2, d)
                     m4 == Issue(m3, KCall(m3, "tensor_product", op.conj, 1,
                                           IF right THEN fmat ELSE tmat,
                                           IF right THEN tmat ELSE fmat, out))
                     m5 == DeallocIf(m4, d, fmat.buf)
                 IN Deallocate(m5, tmp)

\* mat = eval(expr); the strings of a Sum are evaluated in order
RECURSIVE tensor_product(_, _, _, _, _)
RECURSIVE TensorProductSum(_, _, _, _, _, _)
tensor_product(m, expr, lop, rop, mat) ==
    IF m.fail # "none" THEN m
    ELSE CASE expr.type = "Prod" -> ProdNode(m, expr, lop, rop, "tensor_product", mat)
           [] expr.type = "SumProd" -> SumProdNode(m, expr, lop, rop, mat)
           [] expr.type = "Sum" -> TensorProductSum(m, expr.strings, lop, rop, mat, 1)
           [] expr.type = "Zero" -> m
           [] OTHER -> Fail(m, "assert")

TensorProductSum(m, strings, lop, rop, mat, i) ==
    IF i > Len(strings) THEN m
    ELSE TensorProductSum(tensor_product(m, strings[i], lop, rop, mat),
                          strings, lop, rop, mat, i + 1)

\* vmat = expr x cmat
RECURSIVE tensor_product_multiply(_, _, _, _)
RECURSIVE TensorProductMultiplySum(_, _, _, _, _)
tensor_product_multiply(m, expr, lop, rop) ==
    IF m.fail # "none" THEN m
    ELSE CASE expr.type = "Prod" ->
                ProdNode(m, expr, lop, rop, "tensor_product_multiply", OutBuf)
           [] expr.type = "Sum" -> TensorProductMultiplySum(m, expr.strings, lop, rop, 1)
           [] expr.type = "Zero" -> m
           [] OTHER -> Fail(m, "assert")

TensorProductMultiplySum(m, strings, lop, rop, i) ==
    IF i > Len(strings) THEN m
    ELSE TensorProductMultiplySum(tensor_product_multiply(m, strings[i], lop, rop),
                                  strings, lop, rop, i + 1)

\* mat = diag(expr)
RECURSIVE tensor_product_diagonal(_, _, _, _)
RECURSIVE TensorProductDiagonalSum(_, _, _, _, _)
tensor_product_diagonal(m, expr, lop, rop) ==
    IF m.fail # "none" THEN m
    ELSE CASE expr.type = "Prod" ->
                ProdNode(m, expr, lop, rop, "tensor_product_diagonal", OutBuf)
           [] expr.type = "Sum" -> TensorProductDiagonalSum(m, expr.strings, lop, rop, 1)
           [] expr.type = "Zero" -> m
           [] OTHER -> Fail(m, "assert")

TensorProductDiagonalSum(m, strings, lop, rop, i) ==
    IF i > Len(strings) THEN m
    ELSE TensorProductDiagonalSum(tensor_product_diagonal(m, strings[i], lop, rop),
                                  strings, lop, rop, i + 1)

\* for (int k = 0; k < pks.count(); k++) opf->tensor_product_multiply(...)
RECURSIVE PartialLoop(_, _, _, _, _, _, _)
PartialLoop(m, conj, factor, lmat, rmat, k, npk) ==
    IF k >= npk THEN m
    ELSE PartialLoop(Issue(m, KCall(m, "tensor_product_multiply", conj, factor,
                                    lmat, rmat, <<"out", k>>)),
                     conj, factor, lmat, rmat, k + 1, npk)

\* op->conj & 1, op->conj & 2
BitAnd(conj, bit) == IF (conj \div bit) % 2 = 1 THEN bit ELSE 0

\* case OpTypes::Prod of tensor_product_partial_multiply
PartialProdNode(m, op, lop, rop, trace_right, npk) ==
    IF op.b = Null THEN Fail(m, "assert")
    ELSE LET ka == IF trace_right THEN op.a ELSE "I"
             kb == IF trace_right THEN "I" ELSE op.b
         IN IF ~(Count(lop, ka) /\ Count(rop, kb)) THEN Fail(m, "assert")
            ELSE LET dl == lop[ka] = "delayed"
                     dr == rop[kb] = "delayed"
                     lmat == ForceOperand(m, dl, "l", ka)
                     m1 == Force(m, dl)
                     rmat == ForceOperand(m1, dr, "r", kb)
                     m2 == Force(m1, dr)
                     m3 == PartialLoop(m2, BitAnd(op.conj, IF trace_right THEN 1 ELSE 2),
                                       op.factor, lmat, rmat, 0, npk)
                 IN DeallocIf(DeallocIf(m3, dr, rmat.buf), dl, lmat.buf)

\* vmat = expr[L part | R part] x cmat
RECURSIVE tensor_product_partial_multiply(_, _, _, _, _, _)
RECURSIVE PartialMultiplySum(_, _, _, _, _, _, _)
tensor_product_partial_multiply(m, expr, lop, rop, trace_right, npk) ==
    IF m.fail # "none" THEN m
    ELSE CASE expr.type = "Prod" -> PartialProdNode(m, expr, lop, rop, trace_right, npk)
           [] expr.type = "Sum" ->
                PartialMultiplySum(m, expr.strings, lop, rop, trace_right, npk, 1)
           [] expr.type = "Zero" -> m
           [] OTHER -> Fail(m, "assert")

PartialMultiplySum(m, strings, lop, rop, trace_right, npk, i) ==
    IF i > Len(strings) THEN m
    ELSE PartialMultiplySum(
             tensor_product_partial_multiply(m, strings[i], lop, rop, trace_right, npk),
             strings, lop, rop, trace_right, npk, i + 1)

AllocateOps_None(m, cops, ix) == m

\* for (auto &p : c->ops) c->ops.at(op)->allocate(...), in key order
RECURSIVE AllocateOps(_, _, _)
AllocateOps(m, cops, ix) ==
    IF ix > Cardinality(Keys) THEN m
    ELSE AllocateOps(IF \E k \in cops : KeyIx(k) = ix
                     THEN Allocate(m, <<"out", ix>>) ELSE m,
                     cops, ix + 1)

\* the entry loop of left_rotate / right_rotate (lines 440-452 / 466-478)
RECURSIVE RotateLoop(_, _, _, _, _, _)
RotateLoop(m, mdata, aops, cops, right, i) ==
    IF m.fail # "none" \/ i > Len(mdata) THEN m
    ELSE IF mdata[i] = "Zero" THEN RotateLoop(m, mdata, aops, cops, right, i + 1)
    ELSE LET pa == mdata[i] IN
         IF ~Count(aops, pa) THEN Fail(m, "throw")
         ELSE LET da == aops[pa] = "delayed"
                  mata == ForceOperand(m, da, "a", pa)
                  m1 == Force(m, da)
              IN IF pa \notin cops THEN Fail(m1, "throw")
                 ELSE LET m2 == Issue(m1, KCall(m1, "tensor_rotate", BoolInt(right),
                                                1, mata, NoOperand,
                                                <<"out", KeyIx(pa)>>))
                      IN RotateLoop(DeallocIf(m2, da, mata.buf),
                                    mdata, aops, cops, right, i + 1)

\* c = mpst_bra x a x mpst_ket (left_rotate: right = FALSE)
rotate(m, mdata, aops, cops, right) ==
    AutoPerformCall(RotateLoop(AllocateOps(m, cops, 1), mdata, aops, cops, right, 1))

\* the k loop of numerical_transform for one i (lines 496-537); st.found
RECURSIVE TransformInner(_, _, _, _, _, _)
TransformInner(st, aops, names, exprs, i, k) ==
    IF st.m.fail # "none" \/ k > Len(names) THEN st
    ELSE IF exprs[k].type = "Zero"
         THEN TransformInner(st, aops, names, exprs, i, k + 1)
    ELSE IF ~Count(aops, names[k])
         THEN [st EXCEPT !.m = Fail(@, "assert")]
    ELSE IF exprs[k].type # "Sum"
         THEN [st EXCEPT !.m = Fail(@, "assert")]
    ELSE LET strs == exprs[k].strings IN
         IF ~(i < Len(strs))
         THEN TransformInner(st, aops, names, exprs, i, k + 1)
         ELSE LET str == strs[i + 1] IN
              IF ~Count(aops, str.a)
              THEN [st EXCEPT !.m = Fail(@, "assert"), !.found = TRUE]
              ELSE LET di == aops[str.a] = "delayed"
                       imat == ForceOperand(st.m, di, "a", str.a)
                       m1 == Force(st.m, di)
                       m2 == Issue(m1, KCall(m1, "iadd", BoolInt(str.conj # 0),
                                             str.factor, imat, NoOperand,
                                             <<"out", KeyIx(names[k])>>))
                       m3 == IF m2.mode = "Simple" THEN Perform(m2) ELSE m2
                   IN TransformInner([m |-> DeallocIf(m3, di, imat.buf),
                                      found |-> TRUE],
                                     aops, names, exprs, i, k + 1)

\* a->ops.size()
OpsSize(aops) == Cardinality({k \in DOMAIN aops : aops[k] # "absent"})

Exhausted_Always(st) == TRUE

\* if (!found) break (lines 538-539)
Exhausted(st) == ~st.found

\* the i loop of numerical_transform (lines 494-540)
RECURSIVE TransformOuter(_, _, _, _, _)
TransformOuter(m, aops, names, exprs, i) ==
    IF m.fail # "none" \/ ~(i < OpsSize(aops)) THEN m
    ELSE LET st == TransformInner([m |-> m, found |-> FALSE],
                                  aops, names, exprs, i, 1)
         IN IF Exhausted(st) THEN st.m
            ELSE TransformOuter(st.m, aops, names, exprs, i + 1)

numerical_transform(m, aops, names, exprs) ==
    IF Len(names) # Len(exprs) THEN Fail(m, "assert")
    ELSE AutoPerformCall(TransformOuter(m, aops, names, exprs, 0))

\* left_assign / right_assign: c = a
RECURSIVE assign(_, _, _, _)
assign(m, mdata, aops, i) ==
    IF m.fail # "none" \/ i > Len(mdata) THEN m
    ELSE IF mdata[i] = "Zero" THEN assign(m, mdata, aops, i + 1)
    ELSE IF ~Count(aops, mdata[i]) THEN Fail(m, "throw")
    ELSE IF aops[mdata[i]] = "delayed" THEN assign(m, mdata, aops, i + 1)
    ELSE assign(Allocate(m, <<"out", KeyIx(mdata[i])>>), mdata, aops, i + 1)

\* the entry loop of left_contract / right_contract (lines 556-563 / 580-587)
RECURSIVE ContractLoop(_, _, _, _, _)
ContractLoop(m, exprs, lop, rop, i) ==
    IF m.fail # "none" \/ i > Len(exprs) THEN m
    ELSE ContractLoop(tensor_product(Allocate(m, <<"out", i>>), exprs[i],
                                     lop, rop, <<"out", i>>),
                      exprs, lop, rop, i + 1)

\* left_contract: (lop, rop) = (a->ops, b->ops); right_contract: (b->ops, a->ops)
contract(m, exprs, clen, lop, rop) ==
    IF Len(exprs) # clen THEN Fail(m, "assert")
    ELSE AutoPerformCall(ContractLoop(m, exprs, lop, rop, 1))

----------------------------------------------------------------------------
(* Inputs of the dispatch operations *)

Conjs == {1, 2}

ProdExprs == {Prod("X", b, c, 2) : b \in {"Y", Null}, c \in Conjs}

KeyOf(i) == CHOOSE k \in Keys : KeyIx(k) = ((i - 1) % Cardinality(Keys)) + 1

\* ops[i] has factor i + 1, conjs alternates
OpsList(n) == [i \in 1 .. n |-> Elem(KeyOf(i), i + 1)]
ConjsList(n) == [i \in 1 .. n |-> i % 2 = 0]

SumProdExprs ==
    {SumProd(a, b, 1, 2, OpsList(n), ConjsList(n)) :
        a \in {"X", Null}, b \in {"X", Null}, n \in 0 .. MaxOps}

SumExprs == {Sum(<<p, q>>) : p, q \in {Zero, Prod("X", "Y", 1, 2)}}

DispatchExprs == {Zero, Elem("X", 1)} \cup ProdExprs \cup SumProdExprs \cup SumExprs

\* the keys of lop (side "l") or rop (side "r") an expression refers to;
\* sp: whether the operation looks into SumProd nodes
RECURSIVE Refs(_, _, _)
Refs(e, side, sp) ==
    CASE e.type = "Prod" /\ e.b # Null -> IF side = "l" THEN {e.a} ELSE {e.b}
      [] e.type = "SumProd" /\ sp /\ (e.a = Null) # (e.b = Null) /\ Len(e.ops) > 0 ->
            IF (side = "r") = (e.b = Null)
            THEN {e.ops[i].a : i \in 1 .. Len(e.ops)}
            ELSE {IF e.b = Null THEN e.a ELSE e.b}
      [] e.type = "Sum" ->
            UNION {Refs(e.strings[i], side, sp) : i \in 1 .. Len(e.strings)}
      [] OTHER -> {}

\* operand maps: keys outside refs are absent
Maps(refs) == {mp \in [Keys -> Status] : \A k \in Keys \ refs : mp[k] = "absent"}

Materialized(mp) == [k \in Keys |-> IF mp[k] = "delayed" THEN "mat" ELSE mp[k]]

\* symbolic matrix entries handed to rotate / assign
MatData == {<<e1>> : e1 \in {"Zero", "X"}} \cup
           {<<e1, e2>> : e1 \in {"Zero", "X"}, e2 \in {"Zero", "Y"}}

DataKeys(mdata) == Range(mdata) \ {"Zero"}

\* strings[i] of a transform expression: operator Y, I, ... with factor i + 1
TransformStrings(n) == [i \in 1 .. n |-> Prod(KeyOf(i + 1), Null, i % 2, i + 1)]

TransformExprs == {Zero, Elem("X", 1)} \cup {Sum(TransformStrings(n)) : n \in 0 .. MaxOps}

\* strings that all read the operator being defined
RepeatedStrings(n) == [i \in 1 .. n |-> Prod("X", Null, i % 2, i + 1)]

TransformInputs ==
    {[names |-> <<"X">>, exprs |-> <<e>>] : e \in TransformExprs} \cup
    {[names |-> <<"X">>, exprs |-> <<Sum(RepeatedStrings(n))>>] : n \in 1 .. MaxOps} \cup
    {[names |-> <<"X", "Y">>, exprs |-> <<Sum(TransformStrings(n1)), Sum(TransformStrings(n2))>>] :
        n1, n2 \in 1 .. MaxOps}

TransformRefs(inp) ==
    {inp.names[k] : k \in {x \in 1 .. Len(inp.names) : inp.exprs[x].type # "Zero"}} \cup
    UNION {{inp.exprs[k].strings[i].a : i \in 1 .. Len(inp.exprs[k].strings)} :
              k \in 1 .. Len(inp.exprs)}

\* a->ops of numerical_transform: the operators being defined are materialized
TransformMaps(inp) ==
    {mp \in Maps(TransformRefs(inp)) :
        \A k \in 1 .. Len(inp.names) : mp[inp.names[k]] # "delayed"}

ContractExprs ==
    {<<e>> : e \in {Zero, Prod("X", "Y", 1, 2),
                    SumProd("X", Null, 1, 2, OpsList(1), ConjsList(1))}} \cup
    {<<Prod("X", "Y", 1, 2), Prod("X", "Y", 2, 2)>>}

----------------------------------------------------------------------------
(* Operations of the dispatch layer *)

SeqTypes == {"None", "Simple", "Auto", "Tasked"}

\* the machine a dispatch call starts from; g: reads of freed storage return
\* something else than the old contents
DStart(g) ==
    [mode |-> seq_mode, g |-> g, live |-> dlive, queue |-> queue, log |-> <<>>,
     nid |-> IF queue = <<>> THEN 0 ELSE nid,
     tmpv |-> IF queue = <<>> THEN <<>> ELSE tmpv,
     fail |-> "none", n |-> ncall + 1]

AnyStale(m) == \E i \in 1 .. Len(m.log) : m.log[i].stale # {}

NormBuf(b) == IF b[1] = "forced" THEN NoBuf
              ELSE IF b[1] = "tmp" THEN <<"tmp", 0>> ELSE b

\* a kernel call without the identity of the storage it reads and writes
Logical(call) == [call EXCEPT !.l.buf = NormBuf(@), !.r.buf = NormBuf(@),
                              !.out = NormBuf(@)]

Issued(log) ==
    LET ix == {i \in 1 .. Len(log) : log[i].ev = "issue"}
        nth(k) == CHOOSE i \in ix : Cardinality({j \in ix : j < i}) = k - 1
    IN [k \in 1 .. Cardinality(ix) |-> Logical(log[nth(k)].call)]

\* history: the call, flags of its inputs, a reference for its kernel calls
\* (the calls of the materialized run; for rotate the non-Zero entries) and,
\* for tensor_product and numerical_transform, the expressions of the call
NoInfo == [op |-> "none", type |-> "none", absent |-> FALSE,
           anyDelayed |-> FALSE, ref |-> <<>>, fail |-> "none", arg |-> Null]

Info(op, type, lop, rop, lrefs, rrefs, ref) ==
    [op |-> op, type |-> type,
     absent |-> (\E k \in lrefs : lop[k] = "absent") \/
                (\E k \in rrefs : rop[k] = "absent"),
     anyDelayed |-> (\E k \in lrefs : lop[k] = "delayed") \/
                    (\E k \in rrefs : rop[k] = "delayed"),
     ref |-> ref, fail |-> "none", arg |-> Null]

DFinish(m, info) ==
    /\ dlive' = m.live
    /\ queue' = m.queue
    /\ tmpv' = m.tmpv
    /\ nid' = m.nid
    /\ dpc' = IF m.fail = "none" THEN "idle" ELSE "failed"
    /\ dlog' = m.log
    /\ ncall' = ncall + 1
    /\ dlast' = [info EXCEPT !.fail = m.fail]
    /\ UNCHANGED <<seq_mode, nondelayed>>

DReady == dpc = "ready" /\ ncall < MaxCalls

TensorProduct(e, lop, rop) ==
    /\ DReady
    /\ \E g \in BOOLEAN :
          LET m == tensor_product(DStart(g), e, lop, rop, OutBuf) IN
          /\ g => AnyStale(m)
          /\ DFinish(m, [Info("tensor_product", e.type, lop, rop,
                              Refs(e, "l", TRUE), Refs(e, "r", TRUE),
                              Issued(tensor_product(DStart(FALSE), e, Materialized(lop),
                                                    Materialized(rop), OutBuf).log))
                             EXCEPT !.arg = e])

TensorProductMultiply(e, lop, rop) ==
    /\ DReady
    /\ \E g \in BOOLEAN :
          LET m == tensor_product_multiply(DStart(g), e, lop, rop) IN
          /\ g => AnyStale(m)
          /\ DFinish(m, [Info("tensor_product_multiply", e.type, lop, rop,
                              Refs(e, "l", FALSE), Refs(e, "r", FALSE),
                              Issued(tensor_product_multiply(DStart(FALSE), e,
                                         Materialized(lop), Materialized(rop)).log))
                             EXCEPT !.arg = [expr |-> e, lop |-> lop, rop |-> rop]])

TensorProductDiagonal(e, lop, rop) ==
    /\ DReady
    /\ \E g \in BOOLEAN :
          LET m == tensor_product_diagonal(DStart(g), e, lop, rop) IN
          /\ g => AnyStale(m)
          /\ DFinish(m, [Info("tensor_product_diagonal", e.type, lop, rop,
                              Refs(e, "l", FALSE), Refs(e, "r", FALSE),
                              Issued(tensor_product_diagonal(DStart(FALSE), e,
                                         Materialized(lop), Materialized(rop)).log))
                             EXCEPT !.arg = [expr |-> e, lop |-> lop, rop |-> rop]])

\* the keys a partial multiply reads: the traced side uses the identity
PartialRefs(e, side, trace_right) ==
    IF Refs(e, side, FALSE) = {} THEN {}
    ELSE IF (side = "r") = trace_right THEN {"I"} ELSE Refs(e, side, FALSE)

TensorProductPartialMultiply(e, lop, rop, trace_right) ==
    /\ DReady
    /\ \E g \in BOOLEAN :
          LET m == tensor_product_partial_multiply(DStart(g), e, lop, rop,
                                                   trace_right, NPks) IN
          /\ g => AnyStale(m)
          /\ DFinish(m, Info("tensor_product_partial_multiply", e.type, lop, rop,
                             PartialRefs(e, "l", trace_right),
                             PartialRefs(e, "r", trace_right), <<>>))

Rotate(mdata, aops, right) ==
    /\ DReady
    /\ \E g \in BOOLEAN :
          LET m == rotate(DStart(g), mdata, aops, DataKeys(mdata), right) IN
          /\ g => AnyStale(m)
          /\ DFinish(m, Info(IF right THEN "right_rotate" ELSE "left_rotate",
                             "Symbolic", aops, aops, DataKeys(mdata), {},
                             SelectSeq(mdata, LAMBDA x : x # "Zero")))

NumericalTransform(inp, aops) ==
    /\ DReady
    /\ \E g \in BOOLEAN :
          LET m == numerical_transform(DStart(g), aops, inp.names, inp.exprs) IN
          /\ g => AnyStale(m)
          /\ DFinish(m, [Info("numerical_transform", "Symbolic", aops, aops,
                              TransformRefs(inp), {}, <<>>)
                             EXCEPT !.arg = [names |-> inp.names, exprs |-> inp.exprs,
                                             size |-> OpsSize(aops)]])

\* left_contract(a, b, c, cexprs) / right_contract with a != nullptr
Contract(exprs, lop, rop, right) ==
    /\ DReady
    /\ \E g \in BOOLEAN :
          LET m == contract(DStart(g), exprs, Len(exprs), lop, rop) IN
          /\ g => AnyStale(m)
          /\ DFinish(m, Info(IF right THEN "right_contract" ELSE "left_contract",
                             "Symbolic", lop, rop,
                             UNION {Refs(exprs[i], "l", TRUE) : i \in 1 .. Len(exprs)},
                             UNION {Refs(exprs[i], "r", TRUE) : i \in 1 .. Len(exprs)},
                             <<>>))

\* left_contract / right_contract with a == nullptr: left_assign / right_assign
ContractAssign(mdata, bops, right) ==
    /\ DReady
    /\ DFinish(assign(DStart(FALSE), mdata, bops, 1),
               Info(IF right THEN "right_assign" ELSE "left_assign",
                    "Symbolic", bops, bops, DataKeys(mdata), {}, <<>>))

\* the caller of the dispatch layer flushes the queue: opf->seq->auto_perform()
AutoPerform ==
    /\ dpc \in {"ready", "idle"}
    /\ seq_mode = "Auto"
    /\ queue # <<>>
    /\ \E g \in BOOLEAN :
          LET m == Perform([DStart(g) EXCEPT !.log = dlog, !.n = ncall]) IN
          /\ g => AnyStale(m)
          /\ dlive' = m.live /\ queue' = m.queue /\ tmpv' = m.tmpv
          /\ nid' = m.nid /\ dlog' = m.log
          /\ UNCHANGED <<seq_mode, dpc, ncall, dlast, nondelayed>>

\* the caller goes on to its next step; the record of the call is dropped
Return ==
    /\ dpc = "idle"
    /\ dpc' = "ready"
    /\ dlog' = <<>>
    /\ dlast' = NoInfo
    /\ UNCHANGED <<seq_mode, dlive, queue, tmpv, nid, ncall, nondelayed>>

InitDelayed ==
    /\ seq_mode \in SeqTypes
    /\ dlive = {}
    /\ queue = <<>>
    /\ tmpv = <<>>
    /\ nid = 0
    /\ dpc = "ready"
    /\ ncall = 0
    /\ dlog = <<>>
    /\ dlast = NoInfo

NextDelayed ==
    \/ \E e \in DispatchExprs :
          \E lop \in Maps(Refs(e, "l", TRUE)), rop \in Maps(Refs(e, "r", TRUE)) :
             TensorProduct(e, lop, rop)
    \/ \E e \in DispatchExprs :
          \E lop \in Maps(Refs(e, "l", TRUE)), rop \in Maps(Refs(e, "r", TRUE)) :
             TensorProductMultiply(e, lop, rop)
    \/ \E e \in DispatchExprs :
          \E lop \in Maps(Refs(e, "l", TRUE)), rop \in Maps(Refs(e, "r", TRUE)) :
             TensorProductDiagonal(e, lop, rop)
    \/ \E e \in DispatchExprs, trace_right \in BOOLEAN :
          \E lop \in Maps(PartialRefs(e, "l", trace_right)),
             rop \in Maps(PartialRefs(e, "r", trace_right)) :
             TensorProductPartialMultiply(e, lop, rop, trace_right)
    \/ \E mdata \in MatData, right \in BOOLEAN :
          \E aops \in Maps(DataKeys(mdata)) : Rotate(mdata, aops, right)
    \/ \E inp \in TransformInputs :
          \E aops \in TransformMaps(inp) : NumericalTransform(inp, aops)
    \/ \E exprs \in ContractExprs, right \in BOOLEAN :
          \E lop \in Maps(UNION {Refs(exprs[i], "l", TRUE) : i \in 1 .. Len(exprs)}),
             rop \in Maps(UNION {Refs(exprs[i], "r", TRUE) : i \in 1 .. Len(exprs)}) :
             Contract(exprs, lop, rop, right)
    \/ \E mdata \in MatData, right \in BOOLEAN :
          \E bops \in Maps(DataKeys(mdata)) : ContractAssign(mdata, bops, right)
    \/ AutoPerform
    \/ Return

----------------------------------------------------------------------------
(* Wick normal ordering: WickIndex, WickTensor (part_000) *)

\* enum struct WickIndexTypes : uint8_t
None == 0
Inactive == 1
Active == 2
External == 4

\* the factor of the operands of the modelled products
MulFactor == 2

\* the factors of the terms given to simplify_merge
MergeFactors == {1, -1}

\* enum struct WickTensorTypes : uint8_t
CreationOperator == 0
DestroyOperator == 1
SpinFreeOperator == 2
KroneckerDelta == 3
Tensor == 4

\* operator& and operator| of WickIndexTypes (bitwise on the uint8_t)
RECURSIVE TypesAnd(_, _)
TypesAnd(a, b) ==
    IF a = 0 \/ b = 0 THEN 0
    ELSE (a % 2) * (b % 2) + 2 * TypesAnd(a \div 2, b \div 2)

TypesOr(a, b) == a + b - TypesAnd(a, b)

\* std::string operator< on the names that occur (digits < upper < lower case)
StrOrder == <<"0", "1", "2", "3", "C", "D", "delta", "h",
              "i", "j", "k", "l", "m", "n", "o", "p">>
StrLess(a, b) ==
    (CHOOSE k \in 1 .. Len(StrOrder) : StrOrder[k] = a)
        < (CHOOSE k \in 1 .. Len(StrOrder) : StrOrder[k] = b)

WickIndex(name, types) == [name |-> name, types |-> types]

with_no_types(wi) == WickIndex(wi.name, None)

\* WickIndex::operator<
IndexLess(a, b) ==
    IF a.types = b.types THEN StrLess(a.name, b.name) ELSE a.types < b.types

\* std::vector<WickIndex>::operator< (lexicographic)
RECURSIVE IndicesLess(_, _)
IndicesLess(x, y) ==
    IF y = <<>> THEN FALSE
    ELSE IF x = <<>> THEN TRUE
    ELSE IF IndexLess(Head(x), Head(y)) THEN TRUE
    ELSE IF IndexLess(Head(y), Head(x)) THEN FALSE
    ELSE IndicesLess(Tail(x), Tail(y))

\* the elements of a std::set<WickIndex> in iteration order
RECURSIVE SortedIndices(_)
SortedIndices(S) ==
    IF S = {} THEN <<>>
    ELSE LET m == CHOOSE a \in S : \A b \in S \ {a} : IndexLess(a, b)
         IN  <<m>> \o SortedIndices(S \ {m})

\* add_types: the types of every idx_map entry holding the name are or-ed in
add_types(wi, idx_map) == WickIndex(wi.name, TypesOr(wi.types, idx_map[wi.name]))

----------------------------------------------------------------------------
(* WickPermutation: data holds the 0-based images, negative the sign *)

WickPermutation(d, negative) == [data |-> d, negative |-> negative]

\* operator*: r[i] = data[other.data[i]], the signs are xor-ed
PermMul(p, q) ==
    WickPermutation([i \in 1 .. Len(p.data) |-> p.data[q.data[i] + 1]],
                    p.negative # q.negative)

Ident(n) == WickPermutation([i \in 1 .. n |-> i - 1], FALSE)

\* the body of the k loop of complete_set: every g * d not yet seen is pushed
RECURSIVE CompleteInner(_, _, _, _)
CompleteInner(v, g, def, j) ==
    IF j > Len(def) THEN v
    ELSE LET h == PermMul(g, def[j])
         IN  CompleteInner(IF h \in Range(v) THEN v ELSE Append(v, h),
                           g, def, j + 1)

\* the loop of complete_set left after the generators were applied once
LoopDone_Early(v, k) == k > 1

\* the exit test of the k loop
LoopDone(v, k) == k > Len(v)

RECURSIVE CompleteLoop(_, _, _)
CompleteLoop(v, k, def) ==
    IF LoopDone(v, k) THEN v
    ELSE CompleteLoop(CompleteInner(v, v[k], def, 1), k + 1, def)

complete_set(n, def) == CompleteLoop(<<Ident(n)>>, 1, def)

non_symmetric == <<>>
two_symmetric == <<WickPermutation(<<1, 0>>, FALSE)>>
qc_chem == <<WickPermutation(<<2, 3, 0, 1>>, FALSE),
             WickPermutation(<<1, 0, 2, 3>>, FALSE),
             WickPermutation(<<0, 1, 3, 2>>, FALSE)>>
qc_phys == <<WickPermutation(<<0, 3, 2, 1>>, FALSE),
             WickPermutation(<<2, 1, 0, 3>>, FALSE),
             WickPermutation(<<1, 0, 3, 2>>, FALSE)>>
four_anti == <<WickPermutation(<<1, 0, 2, 3>>, TRUE),
               WickPermutation(<<0, 1, 3, 2>>, TRUE)>>

\* pair_symmetric: the transpositions (0 i) applied to both halves, and with
\* hermitian the exchange of the two halves
pair_symmetric(n, hermitian) ==
    LET x(i) == [jj \in 1 .. 2 * n |->
                    LET j == (jj - 1) % n
                        v == IF j = 0 THEN i ELSE IF j = i THEN 0 ELSE j
                    IN  IF jj <= n THEN v ELSE v + n]
        r == [i \in 1 .. n - 1 |-> WickPermutation(x(i), FALSE)]
        y == [jj \in 1 .. 2 * n |-> IF jj <= n THEN jj - 1 + n ELSE jj - 1 - n]
    IN  IF hermitian THEN Append(r, WickPermutation(y, FALSE)) ELSE r

----------------------------------------------------------------------------
(* WickTensor *)

\* the test of reset_permutations for one permutation
PermValid(indices, perm) ==
    \A i \in 1 .. Len(indices) :
        ~ (/\ TypesAnd(indices[perm.data[i] + 1].types, indices[i].types) = None
           /\ indices[perm.data[i] + 1].types # None
           /\ indices[i].types # None)

reset_permutations(indices, perms) ==
    SelectSeq(perms, LAMBDA perm : PermValid(indices, perm))

\* the constructor: perms is completed and then filtered by the index types
WickTensor(name, indices, perms, type) ==
    [name |-> name, indices |-> indices,
     perms |-> reset_permutations(indices, complete_set(Len(indices), perms)),
     type |-> type]

\* WickTensor::operator== (perms is not compared)
TensorEq(t, other) ==
    t.type = other.type /\ t.name = other.name /\ t.indices = other.indices

kronecker_delta(indices) ==
    WickTensor("delta", indices, two_symmetric, KroneckerDelta)

\* WickTensor::parse of "C[x]" / "D[x]"
ParseTensor(name, ix, idx_map) ==
    WickTensor(name, <<add_types(WickIndex(ix, None), idx_map)>>, non_symmetric,
               IF name = "C" THEN CreationOperator
               ELSE IF name = "D" THEN DestroyOperator ELSE Tensor)

\* WickTensor::operator*(perm): the constructor runs on the permuted indices
TensorPerm(t, perm) ==
    WickTensor(t.name, [i \in 1 .. Len(t.indices) |-> t.indices[perm.data[i] + 1]],
               t.perms, t.type)

\* the indices of *this * perm
PermutedIndices(t, perm) ==
    [i \in 1 .. Len(t.indices) |-> t.indices[perm.data[i] + 1]]

\* the loop of sort(double &factor) over the perms from k on: the position
\* in perms of the permutation that gave x (0: x is *this), xi are the
\* indices of x
RECURSIVE SortLoop(_, _, _, _)
SortLoop(t, xi, best, k) ==
    IF k > Len(t.perms) THEN best
    ELSE LET zi == PermutedIndices(t, t.perms[k])
         IN  IF IndicesLess(zi, xi) THEN SortLoop(t, zi, k, k + 1)
             ELSE SortLoop(t, xi, best, k + 1)

\* sort(double &factor): <<the sorted tensor, the new value of factor>>
sort(t, factor) ==
    LET best == SortLoop(t, t.indices, 0, 1)
    IN  IF best = 0 THEN <<t, factor>>
        ELSE <<TensorPerm(t, t.perms[best]),
               IF t.perms[best].negative THEN - factor ELSE factor>>

\* fermi_type with the occupation test removed
fermi_type_NoOcc(t, occ_type) == IF t.type = DestroyOperator THEN 1 ELSE 0

\* Ca [00] < Di [01] < Ci [10] < Da [11] :  x | ((x ^ y) << 1)
fermi_type(t, occ_type) ==
    LET x == IF t.type = DestroyOperator THEN 1 ELSE 0
        y == IF Len(t.indices) # 0
                  /\ TypesAnd(t.indices[1].types, occ_type) # None
             THEN 1 ELSE 0
    IN  x + 2 * ((x + y) % 2)

\* WickTensor::operator<
TensorLess(t, other) ==
    LET mask == TypesOr(TypesOr(Inactive, Active), External)
        x_type == IF Len(t.indices) = 0 THEN None
                  ELSE TypesAnd(t.indices[1].types, mask)
        y_type == IF Len(other.indices) = 0 THEN None
                  ELSE TypesAnd(other.indices[1].types, mask)
        min_type == IF x_type < y_type THEN x_type ELSE y_type
        max_type == IF x_type < y_type THEN y_type ELSE x_type
        occ_type == IF min_type = None \/ min_type = External
                       \/ (min_type = Active /\ max_type = Active)
                    THEN Inactive ELSE min_type
    IN  IF fermi_type(t, occ_type) # fermi_type(other, occ_type)
        THEN fermi_type(t, occ_type) < fermi_type(other, occ_type)
        ELSE IF t.name # other.name THEN StrLess(t.name, other.name)
        ELSE IF t.type = other.type THEN IndicesLess(t.indices, other.indices)
        ELSE t.type < other.type

----------------------------------------------------------------------------
(* WickTensor::sort and sort_gen_maps with maps of the summed indices.      *)
(* A ctr_map is [first |-> function from summed index to number,            *)
(* second |-> sign]; set<WickIndex> in iteration order is SortedIndices.    *)

\* string(1, n + '0')
DigitName(n) == StrOrder[n + 1]

\* the loop that numbers the summed indices of a tensor from position k on:
\* the renamed indices, new_map and kidx
RECURSIVE RenameLoop(_, _, _, _, _, _)
RenameLoop(indices, ctr_idxs, first, new_map, kidx, k) ==
    IF k > Len(indices)
    THEN [indices |-> indices, new_map |-> new_map, kidx |-> kidx]
    ELSE LET wi == indices[k]
             fresh == wi \notin DOMAIN first /\ wi \notin DOMAIN new_map
             nm == IF fresh THEN (wi :> kidx) @@ new_map ELSE new_map
             v == IF wi \in DOMAIN first THEN first[wi] ELSE nm[wi]
         IN  IF wi \notin ctr_idxs
             THEN RenameLoop(indices, ctr_idxs, first, new_map, kidx, k + 1)
             ELSE RenameLoop([indices EXCEPT ![k] = WickIndex(DigitName(v), wi.types)],
                             ctr_idxs, first, nm,
                             IF fresh THEN kidx + 1 ELSE kidx, k + 1)

Numbered(indices, ctr_idxs, first, new_idx) ==
    RenameLoop(indices, ctr_idxs, first, <<>>, new_idx, 1)

\* the pairs <<position in perms, position in ctr_maps>> in loop order
PermMapPairs(t, ctr_maps) ==
    [n \in 1 .. Len(t.perms) * Len(ctr_maps) |->
        <<((n - 1) \div Len(ctr_maps)) + 1, ((n - 1) % Len(ctr_maps)) + 1>>]

\* the loop of sort(ctr_idxs, ctr_maps, new_idx): the pair that gave x
\* (<<0, 0>>: x is *this numbered by ctr_maps[0]), xi are the indices of x
RECURSIVE CtrSortLoop(_, _, _, _, _, _, _)
CtrSortLoop(t, ctr_idxs, ctr_maps, new_idx, xi, best, n) ==
    IF n > Len(PermMapPairs(t, ctr_maps)) THEN best
    ELSE LET pm == PermMapPairs(t, ctr_maps)[n]
             zi == Numbered(PermutedIndices(t, t.perms[pm[1]]), ctr_idxs,
                            ctr_maps[pm[2]].first, new_idx).indices
         IN  IF IndicesLess(zi, xi)
             THEN CtrSortLoop(t, ctr_idxs, ctr_maps, new_idx, zi, pm, n + 1)
             ELSE CtrSortLoop(t, ctr_idxs, ctr_maps, new_idx, xi, best, n + 1)

\* sort(ctr_idxs, ctr_maps, new_idx): [x |-> the tensor, new_idx |-> kidx of
\* the last pair of the loop]
ctr_sort(t, ctr_idxs, ctr_maps, new_idx) ==
    LET x0 == Numbered(t.indices, ctr_idxs, ctr_maps[1].first, new_idx).indices
        best == CtrSortLoop(t, ctr_idxs, ctr_maps, new_idx, x0, <<0, 0>>, 1)
        lastz == Numbered(PermutedIndices(t, t.perms[Len(t.perms)]), ctr_idxs,
                          ctr_maps[Len(ctr_maps)].first, new_idx)
    IN  [x |-> IF best = <<0, 0>> THEN [t EXCEPT !.indices = x0]
               ELSE [TensorPerm(t, t.perms[best[1]]) EXCEPT !.indices =
                        Numbered(PermutedIndices(t, t.perms[best[1]]), ctr_idxs,
                                 ctr_maps[best[2]].first, new_idx).indices],
         new_idx |-> lastz.kidx]

\* std::map operator<: the entries compared in key order
MapEntries(m) == [k \in 1 .. Cardinality(DOMAIN m) |->
                     <<SortedIndices(DOMAIN m)[k], m[SortedIndices(DOMAIN m)[k]]>>]

RECURSIVE EntriesLess(_, _)
EntriesLess(a, b) ==
    IF b = <<>> THEN FALSE
    ELSE IF a = <<>> THEN TRUE
    ELSE IF Head(a) = Head(b) THEN EntriesLess(Tail(a), Tail(b))
    ELSE IF Head(a)[1] # Head(b)[1] THEN IndexLess(Head(a)[1], Head(b)[1])
    ELSE Head(a)[2] < Head(b)[2]

\* operator< of pair<map<WickIndex, int>, int>
CtrMapLess(a, b) ==
    IF a.first # b.first
    THEN EntriesLess(MapEntries(a.first), MapEntries(b.first))
    ELSE a.second < b.second

\* the elements of a std::set of ctr_maps in iteration order
RECURSIVE SortedMaps(_)
SortedMaps(S) ==
    IF S = {} THEN <<>>
    ELSE LET m == CHOOSE a \in S : \A b \in S \ {a} : CtrMapLess(a, b)
         IN  <<m>> \o SortedMaps(S \ {m})

\* sort_gen_maps: the maps under which a permutation of *this gives ref
sort_gen_maps(t, ref, ctr_idxs, ctr_maps, new_idx) ==
    SortedMaps(
        {LET z == Numbered(PermutedIndices(t, t.perms[pm[1]]), ctr_idxs,
                           ctr_maps[pm[2]].first, new_idx)
         IN  [first |-> z.new_map @@ ctr_maps[pm[2]].first,
              second |-> IF t.perms[pm[1]].negative THEN - ctr_maps[pm[2]].second
                         ELSE ctr_maps[pm[2]].second] :
         pm \in {pm \in Range(PermMapPairs(t, ctr_maps)) :
                    Numbered(PermutedIndices(t, t.perms[pm[1]]), ctr_idxs,
                             ctr_maps[pm[2]].first, new_idx).indices
                        = ref.indices}})

----------------------------------------------------------------------------
(* WickString, split_index_types *)

WickString(tensors, ctr_indices, factor) ==
    [tensors |-> tensors, ctr_indices |-> ctr_indices, factor |-> factor]

check_mask == TypesOr(TypesOr(Inactive, Active), External)
check_types == <<Inactive, Active, External>>

\* the check_types a summed index of several types is split into
SplitTypes(types) ==
    SelectSeq(check_types,
              LAMBDA ct : TypesAnd(types, ct) # None
                          /\ TypesAnd(types, check_mask) # ct)

\* (types & ~check_mask) | ct
Retyped(types, ct) == TypesOr(types - TypesAnd(types, check_mask), ct)

\* one pass of the loop over vidxs: copy k of the nk lists gets type ts[k]
SplitAt(xs, vidxs, i) ==
    LET ts == SplitTypes(vidxs[i].types)
        nk == Len(xs)
    IN  IF ts = <<>> THEN xs
        ELSE [m \in 1 .. nk * Len(ts) |->
                 [xs[((m - 1) % nk) + 1] EXCEPT
                     ![i].types = Retyped(@, ts[((m - 1) \div nk) + 1])]]

RECURSIVE SplitAll(_, _, _)
SplitAll(xs, vidxs, i) ==
    IF i > Len(vidxs) THEN xs
    ELSE SplitAll(SplitAt(xs, vidxs, i), vidxs, i + 1)

\* a tensor index takes the split index of the same name and a common type
RECURSIVE Reindex(_, _, _)
Reindex(wi, xs, k) ==
    IF k > Len(xs) THEN wi
    ELSE Reindex(IF with_no_types(wi) = with_no_types(xs[k])
                    /\ TypesAnd(wi.types, xs[k].types) # None
                 THEN xs[k] ELSE wi, xs, k + 1)

\* static WickExpr split_index_types(const WickString &x)
split_index_types(x) ==
    LET vidxs == SortedIndices(x.ctr_indices)
        xctr == SplitAll(<<vidxs>>, vidxs, 1)
        term(m) ==
            WickString(
                [t \in 1 .. Len(x.tensors) |->
                    [x.tensors[t] EXCEPT !.indices =
                        [q \in 1 .. Len(x.tensors[t].indices) |->
                            Reindex(x.tensors[t].indices[q], xctr[m], 1)]]],
                Range(xctr[m]), x.factor)
    IN  SelectSeq([m \in 1 .. Len(xctr) |-> term(m)],
                  LAMBDA ws : ws.factor # 0)

----------------------------------------------------------------------------
(* WickString::quick_sort and the comparisons of WickString *)

\* std::vector<WickTensor>::operator== and operator<
TensorsEq(a, b) ==
    Len(a) = Len(b) /\ \A q \in 1 .. Len(a) : TensorEq(a[q], b[q])

RECURSIVE TensorsLess(_, _)
TensorsLess(a, b) ==
    IF b = <<>> THEN FALSE
    ELSE IF a = <<>> THEN TRUE
    ELSE IF TensorLess(Head(a), Head(b)) THEN TRUE
    ELSE IF TensorLess(Head(b), Head(a)) THEN FALSE
    ELSE TensorsLess(Tail(a), Tail(b))

abs_equal_to(x, other) ==
    /\ Len(x.tensors) = Len(other.tensors)
    /\ Cardinality(x.ctr_indices) = Cardinality(other.ctr_indices)
    /\ TensorsEq(x.tensors, other.tensors)
    /\ x.ctr_indices = other.ctr_indices

\* WickString::operator<
StringLess(x, other) ==
    IF Len(x.tensors) # Len(other.tensors)
    THEN Len(x.tensors) < Len(other.tensors)
    ELSE IF Cardinality(x.ctr_indices) # Cardinality(other.ctr_indices)
    THEN Cardinality(x.ctr_indices) < Cardinality(other.ctr_indices)
    ELSE IF ~ TensorsEq(x.tensors, other.tensors)
    THEN TensorsLess(x.tensors, other.tensors)
    ELSE IF x.ctr_indices # other.ctr_indices
    THEN IndicesLess(SortedIndices(x.ctr_indices),
                     SortedIndices(other.ctr_indices))
    ELSE x.factor < other.factor

abs(x) == WickString(x.tensors, x.ctr_indices, 1)

\* the first loop of quick_sort: every tensor sorted by its own perms,
\* <<the tensors, xfactor>>
RECURSIVE SortEach(_, _, _)
SortEach(tensors, xfactor, q) ==
    IF q > Len(tensors) THEN <<tensors, xfactor>>
    ELSE LET r == sort(tensors[q], xfactor)
         IN  SortEach([tensors EXCEPT ![q] = r[1]], r[2], q + 1)

\* the comparison of the std::sort of ot_tensors
KeyLess(a, b) ==
    IF a.name # b.name THEN StrLess(a.name, b.name)
    ELSE Len(a.indices) < Len(b.indices)

\* std::sort on the short vectors of a term (insertion sort)
RECURSIVE InsertByKey(_, _)
InsertByKey(s, t) ==
    IF s = <<>> THEN <<t>>
    ELSE IF KeyLess(t, s[Len(s)]) THEN Append(InsertByKey(SubSeq(s, 1, Len(s) - 1), t), s[Len(s)])
    ELSE Append(s, t)

RECURSIVE SortByKey(_)
SortByKey(s) ==
    IF s = <<>> THEN <<>>
    ELSE InsertByKey(SortByKey(SubSeq(s, 1, Len(s) - 1)), s[Len(s)])

\* ot_tensor_groups: the first position of every group, and one past the end
GroupStarts(ot) ==
    SelectSeq([q \in 1 .. Len(ot) |-> q],
              LAMBDA q : q = 1 \/ ot[q].name # ot[q - 1].name
                               \/ Len(ot[q].indices) # Len(ot[q - 1].indices))
        \o <<Len(ot) + 1>>

\* the loop over k of one selection: [k, x, new_idx] of the tensor chosen
RECURSIVE Select(_, _, _, _, _, _)
Select(ot, wta, ctr, c, k, best) ==
    IF k > Len(wta) THEN best
    ELSE LET r == ctr_sort(ot[wta[k]], ctr, c.ctr_maps, c.kidx)
         IN  IF IndicesLess(r.x.indices, best.x.indices)
             THEN Select(ot, wta, ctr, c, k + 1,
                         [k |-> k, x |-> r.x, new_idx |-> r.new_idx])
             ELSE Select(ot, wta, ctr, c, k + 1, best)

\* the loop over j of one group; c holds ctr_maps, kidx and ot_sorted
RECURSIVE GroupLoop(_, _, _, _, _)
GroupLoop(ot, wta, ctr, c, j) ==
    IF j > Len(wta) THEN c
    ELSE LET r == ctr_sort(ot[wta[j]], ctr, c.ctr_maps, c.kidx)
             b == Select(ot, wta, ctr, c, j + 1,
                         [k |-> j, x |-> r.x, new_idx |-> r.new_idx])
         IN  GroupLoop(ot,
                       [wta EXCEPT ![j] = wta[b.k], ![b.k] = wta[j]], ctr,
                       [ctr_maps |-> sort_gen_maps(ot[wta[b.k]], b.x, ctr,
                                                   c.ctr_maps, c.kidx),
                        kidx |-> b.new_idx,
                        ot_sorted |-> Append(c.ot_sorted, b.x)],
                       j + 1)

\* the loop over the groups
RECURSIVE GroupsLoop(_, _, _, _, _)
GroupsLoop(ot, starts, ctr, c, ig) ==
    IF ig >= Len(starts) THEN c
    ELSE GroupsLoop(ot, starts, ctr,
                    GroupLoop(ot, [j \in 1 .. starts[ig + 1] - starts[ig] |->
                                      starts[ig] + j - 1], ctr, c, 1),
                    ig + 1)

\* the loop over cd_tensors
RECURSIVE CdLoop(_, _, _, _)
CdLoop(cd, ctr, c, q) ==
    IF q > Len(cd) THEN c
    ELSE LET r == ctr_sort(cd[q], ctr, c.ctr_maps, c.kidx)
         IN  CdLoop(cd, ctr,
                    [ctr_maps |-> sort_gen_maps(cd[q], r.x, ctr, c.ctr_maps, c.kidx),
                     kidx |-> r.new_idx,
                     ot_sorted |-> Append(c.ot_sorted, r.x)],
                    q + 1)

IsOt(t) == t.type = KroneckerDelta \/ t.type = Tensor

quick_sort(x) ==
    LET s == SortEach(x.tensors, x.factor, 1)
        ot == SortByKey(SelectSeq(s[1], IsOt))
        cd == SelectSeq(s[1], LAMBDA t : ~ IsOt(t))
        c0 == [ctr_maps |-> <<[first |-> <<>>, second |-> 1]>>, kidx |-> 0,
               ot_sorted |-> <<>>]
        c == CdLoop(cd, x.ctr_indices,
                    GroupsLoop(ot, GroupStarts(ot), x.ctr_indices, c0, 1), 1)
    IN  WickString(c.ot_sorted,
                   {WickIndex(DigitName(c.ctr_maps[1].first[wi]), wi.types) :
                       wi \in x.ctr_indices},
                   s[2] * c.ctr_maps[1].second)

----------------------------------------------------------------------------
(* WickString::simplify_delta *)

\* the type test of a delta: the term vanishes
DeltaConflict(ia, ib) ==
    (ia.types # None \/ ib.types # None) /\ TypesAnd(ia.types, ib.types) = None

\* the loop over the other tensors left out
ReplaceIndex_None(xtensors, i, ia, ib, ic) == xtensors

\* the same delta, or the reversed one, is among the kept tensors
DeltaFound(xtensors, xidxs, ia, ib) ==
    \E j \in 1 .. Len(xidxs) :
        /\ xtensors[xidxs[j]].type = KroneckerDelta
        /\ \/ xtensors[xidxs[j]].indices = <<ia, ib>>
           \/ xtensors[xidxs[j]].indices = <<ib, ia>>

\* indices[k] = ic wherever a tensor other than the i-th holds ia or ib
ReplaceIndex(xtensors, i, ia, ib, ic) ==
    [j \in 1 .. Len(xtensors) |->
        IF j = i THEN xtensors[j]
        ELSE [xtensors[j] EXCEPT !.indices =
                 [k \in 1 .. Len(@) |-> IF @[k] = ia \/ @[k] = ib THEN ic ELSE @[k]]]]

\* one iteration of the loop over the tensors; c holds xtensors,
\* xctr_indices, xfactor and xidxs
DeltaStep(c, i) ==
    LET ia == c.xtensors[i].indices[1]
        ib == c.xtensors[i].indices[2]
        ic == IF ia \in c.xctr_indices
              THEN WickIndex(ib.name, TypesAnd(ia.types, ib.types))
              ELSE WickIndex(ia.name, TypesAnd(ia.types, ib.types))
    IN  IF c.xtensors[i].type # KroneckerDelta
        THEN [c EXCEPT !.xidxs = Append(@, i)]
        ELSE IF ia = ib THEN c
        ELSE IF DeltaConflict(ia, ib) THEN [c EXCEPT !.xfactor = 0]
        ELSE IF ia \notin c.xctr_indices /\ ib \notin c.xctr_indices
        THEN IF DeltaFound(c.xtensors, c.xidxs, ia, ib) THEN c
             ELSE [c EXCEPT !.xidxs = Append(@, i)]
        ELSE [c EXCEPT !.xctr_indices =
                           @ \ {IF ia \in c.xctr_indices THEN ia ELSE ib},
                       !.xtensors = ReplaceIndex(@, i, ia, ib, ic)]

RECURSIVE DeltaLoop(_, _)
DeltaLoop(c, i) ==
    IF i > Len(c.xtensors) THEN c ELSE DeltaLoop(DeltaStep(c, i), i + 1)

simplify_delta(x) ==
    LET c == DeltaLoop([xtensors |-> x.tensors, xctr_indices |-> x.ctr_indices,
                        xfactor |-> x.factor, xidxs |-> <<>>], 1)
    IN  WickString([i \in 1 .. Len(c.xidxs) |-> c.xtensors[c.xidxs[i]]],
                   c.xctr_indices, c.xfactor)

----------------------------------------------------------------------------
(* WickString::operator*(const WickString &) *)

\* g.name[0] += i on the one-letter names
ShiftName(name, i) ==
    StrOrder[(CHOOSE k \in 1 .. Len(StrOrder) : StrOrder[k] = name) + i]

used_indices(x) == UNION {Range(x.tensors[q].indices) : q \in 1 .. Len(x.tensors)}

\* the first i >= from for which the shifted index is not in used
RECURSIVE FreshShift(_, _, _)
FreshShift(idx, used, i) ==
    IF WickIndex(ShiftName(idx.name, i), idx.types) \notin used THEN i
    ELSE FreshShift(idx, used, i + 1)

\* the loop over used_idxs that fills mp_idxs: c holds used_idxs and mp_idxs
RECURSIVE MulRename(_, _, _)
MulRename(todo, rep, c) ==
    IF todo = <<>> THEN c
    ELSE LET idx == Head(todo)
             g == WickIndex(ShiftName(idx.name, FreshShift(idx, c.used_idxs, 1)),
                            idx.types)
         IN  IF idx \in rep
             THEN MulRename(Tail(todo), rep,
                            [used_idxs |-> c.used_idxs \cup {g},
                             mp_idxs |-> c.mp_idxs @@ (idx :> g)])
             ELSE MulRename(Tail(todo), rep, c)

\* the tensors with every index of ren replaced through mp
Renamed(tensors, mp, ren) ==
    [q \in 1 .. Len(tensors) |->
        [tensors[q] EXCEPT !.indices =
            [k \in 1 .. Len(@) |-> IF @[k] \in ren THEN mp[@[k]] ELSE @[k]]]]

\* a * b
Mul(a, b) ==
    LET a_idxs == used_indices(a)
        b_idxs == used_indices(b)
        xa_rep == a.ctr_indices \cap b_idxs
        xb_rep == b.ctr_indices \cap a_idxs
        xc_rep == a.ctr_indices \cap b.ctr_indices
        c == MulRename(SortedIndices(a_idxs \cup b_idxs), xa_rep \cup xb_rep,
                       [used_idxs |-> a_idxs \cup b_idxs, mp_idxs |-> <<>>])
        a_ren == (DOMAIN c.mp_idxs \cap xa_rep) \ xc_rep
        b_ren == DOMAIN c.mp_idxs \cap xb_rep
        ren(S, r) == {IF wi \in r THEN c.mp_idxs[wi] ELSE wi : wi \in S}
    IN  WickString(Renamed(a.tensors, c.mp_idxs, a_ren)
                       \o Renamed(b.tensors, c.mp_idxs, b_ren),
                   ren(a.ctr_indices, a_ren) \cup ren(b.ctr_indices, b_ren),
                   a.factor * b.factor)

----------------------------------------------------------------------------
(* WickString::substitute; defs is a function from tensor names to          *)
(* [first |-> the defined tensor, second |-> the strings it stands for]     *)

\* the first i >= from for which wi shifted by i is not in used
RECURSIVE FreshFrom(_, _, _)
FreshFrom(wi, used, i) ==
    IF WickIndex(ShiftName(wi.name, i), wi.types) \notin used THEN i
    ELSE FreshFrom(wi, used, i + 1)

\* the loop over dx.ctr_indices: c holds used_idxs, idx_map and the
\* ctr_indices of rg
RECURSIVE SubstCtr(_, _)
SubstCtr(todo, c) ==
    IF todo = <<>> THEN c
    ELSE LET wi == Head(todo)
             g == WickIndex(ShiftName(wi.name, FreshFrom(wi, c.used_idxs, 0)),
                            wi.types)
         IN  SubstCtr(Tail(todo),
                      [used_idxs |-> c.used_idxs \cup {g},
                       idx_map |-> (wi :> g) @@ c.idx_map,
                       ctr_indices |-> c.ctr_indices \cup {g}])

\* the argument indices of the definition mapped to the indices of wt
ArgMap(first, wt) ==
    [a \in Range(first.indices) |->
        wt.indices[CHOOSE i \in 1 .. Len(first.indices) :
                      /\ first.indices[i] = a
                      /\ \A k \in i + 1 .. Len(first.indices) :
                            first.indices[k] # a]]

\* the names in use when wt is replaced in rr
SubstUsed(rr, wt) == used_indices(rr) \cup Range(wt.indices)

\* rg: the tensor wt of rr replaced by the string dx of its definition
SubstOne(rr, wt, first, dx) ==
    LET c == SubstCtr(SortedIndices(dx.ctr_indices),
                      [used_idxs |-> SubstUsed(rr, wt),
                       idx_map |-> ArgMap(first, wt),
                       ctr_indices |-> rr.ctr_indices])
    IN  WickString(
            rr.tensors
                \o [q \in 1 .. Len(dx.tensors) |->
                       [dx.tensors[q] EXCEPT !.indices =
                           [k \in 1 .. Len(@) |-> c.idx_map[@[k]]]]],
            c.ctr_indices, rr.factor * dx.factor)

\* the loop over the tensors of *this from position q on
RECURSIVE SubstLoop(_, _, _, _)
SubstLoop(x, defs, r, q) ==
    IF q > Len(x.tensors) THEN r
    ELSE LET wt == x.tensors[q]
         IN  IF wt.name \notin DOMAIN defs
             THEN SubstLoop(x, defs,
                            [m \in 1 .. Len(r) |->
                                [r[m] EXCEPT !.tensors = Append(@, wt)]],
                            q + 1)
             ELSE LET p == defs[wt.name]
                      nd == Len(p.second)
                  IN  SubstLoop(x, defs,
                                [m \in 1 .. Len(r) * nd |->
                                    SubstOne(r[(m - 1) \div nd + 1], wt, p.first,
                                             p.second[((m - 1) % nd) + 1])],
                                q + 1)

substitute(x, defs) ==
    SubstLoop(x, defs, <<[x EXCEPT !.tensors = <<>>]>>, 1)

----------------------------------------------------------------------------
(* normal_order_impl_new for strings of creation / destroy operators *)

IsCD(wt) == wt.type = CreationOperator \/ wt.type = DestroyOperator

\* all possible pairs (i, j), i < j, in the order the double loop visits them
CtrIdxs(cd) ==
    LET n == Len(cd)
    IN  SelectSeq([m \in 1 .. n * n |-> <<(m - 1) \div n, (m - 1) % n>>],
                  LAMBDA p : /\ p[1] < p[2]
                             /\ cd[p[1] + 1].type # cd[p[2] + 1].type
                             /\ TensorLess(cd[p[2] + 1], cd[p[1] + 1]))

\* starting index in ctr_idxs for the given first index in the pair
CtrCdIdxs(ctr, n) ==
    [i \in 0 .. n |-> Cardinality({m \in 1 .. Len(ctr) : ctr[m][1] < i})]

\* std::stable_sort of the positions by operator< of the tensors
RECURSIVE InsertSorted(_, _, _)
InsertSorted(s, e, cd) ==
    IF s = <<>> THEN <<e>>
    ELSE IF TensorLess(cd[e + 1], cd[s[Len(s)] + 1])
         THEN InsertSorted(SubSeq(s, 1, Len(s) - 1), e, cd) \o <<s[Len(s)]>>
         ELSE s \o <<e>>

RECURSIVE TensorIdxs(_, _)
TensorIdxs(cd, n) ==
    IF n = 0 THEN <<>> ELSE InsertSorted(TensorIdxs(cd, n - 1), n - 1, cd)

RevIdxs(tensor_idxs) ==
    [p \in 0 .. Len(tensor_idxs) - 1 |->
        (CHOOSE i \in 1 .. Len(tensor_idxs) : tensor_idxs[i] = p) - 1]

\* sign for reordering tensors to the normal order
ReorderSign(rev, n) ==
    Cardinality({p \in (0 .. n - 1) \X (0 .. n - 1) :
                    p[1] < p[2] /\ rev[p[2]] < rev[p[1]]}) % 2

Xor(a, b) == (a + b) % 2

\* what the traversal is given: the tensors and the tables built before it
NOContext(x, max_unctr, no_ctr) ==
    LET cd == SelectSeq(x.tensors, IsCD)
        ot == SelectSeq(x.tensors,
                        LAMBDA wt : ~IsCD(wt) /\ wt.type # SpinFreeOperator)
        n == Len(cd)
        ctr == CtrIdxs(cd)
        tidx == TensorIdxs(cd, n)
    IN  [x |-> x, max_unctr |-> max_unctr, no_ctr |-> no_ctr,
         cd |-> cd, n |-> n, ot |-> ot, ot_count |-> Len(ot),
         ctr_idxs |-> ctr, ctr_cd_idxs |-> CtrCdIdxs(ctr, n),
         tensor_idxs |-> tidx, rev_idxs |-> RevIdxs(tidx)]

\* the state before the first iteration of the while loop
NOStart(c) ==
    LET go == c.max_unctr # 0 \/ c.n % 2 = 0
    IN  [que |-> IF go THEN <<<<-1, -1>>>> ELSE <<>>,
         cur_idxs |-> [i \in 0 .. c.n - 1 |-> <<0, 0>>],
         acc_sign |-> [i \in 0 .. c.n |->
                          IF go /\ i = 0 THEN ReorderSign(c.rev_idxs, c.n)
                          ELSE 0],
         ot_tensors |-> c.ot,
         terms |-> <<>>,
         hist |-> <<>>]

FirstSkip_Never(cur, l, cc, dd) == l

\* the first earlier contraction sharing an operator with the current one
FirstSkip(cur, l, cc, dd) ==
    LET hit == {i \in 0 .. l - 1 :
                   cur[i][2] = dd \/ cur[i][2] = cc \/ cur[i][1] = dd}
    IN  IF hit = {} THEN l
        ELSE CHOOSE i \in hit : \A k \in hit : i <= k

CrossSign_None(cur, upto, cc, dd) == 0

\* add contraction crossing sign from c/d, over the iterations the loop ran
CrossSign(cur, upto, cc, dd) ==
    Cardinality({i \in 0 .. upto :
        \/ (cur[i][1] < cc /\ cur[i][2] > cc /\ cur[i][2] < dd)
        \/ (cur[i][1] > cc /\ cur[i][1] < dd /\ cur[i][2] > dd)}) % 2

\* remove tensor reorder sign for c/d
RemoveSign(rev, masked, n, cc, dd) ==
    LET lt(a, b) == IF (IF a < b THEN rev[b] < rev[a] ELSE rev[a] < rev[b])
                    THEN 1 ELSE 0
        free == (0 .. n - 1) \ masked
    IN  (lt(cc, dd) + SumOver(free, [i \in free |-> lt(cc, i) + lt(dd, i)])) % 2

ResizeTensors(ot, m) ==
    [q \in 1 .. m |-> IF q <= Len(ot) THEN ot[q]
                      ELSE [name |-> "", indices |-> <<>>, perms |-> <<>>,
                            type |-> Tensor]]

Pruned_Never(c, l) == FALSE

\* more than max_unctr operators are left after the contractions 0 .. l
Pruned(c, l) == c.max_unctr # -1 /\ c.n - (l + l + 2) > c.max_unctr

\* one iteration of the depth-first tree traverse; hist is history: the
\* contractions cur_idxs[0 .. l] of every term pushed to r.terms
NOStep(c, st) ==
    LET back == st.que[Len(st.que)]
        l == back[1]
        j == back[2]
        que1 == SubSeq(st.que, 1, Len(st.que) - 1)
        cur == IF l # -1 THEN [st.cur_idxs EXCEPT ![l] = c.ctr_idxs[j + 1]]
               ELSE st.cur_idxs
        k == IF l # -1 THEN c.ctr_cd_idxs[c.ctr_idxs[j + 1][1] + 1] ELSE 0
        cc == IF l # -1 THEN cur[l][1] ELSE 0
        dd == IF l # -1 THEN cur[l][2] ELSE 0
        fs == FirstSkip(cur, l, cc, dd)
        skip == l # -1 /\ fs < l
        upto == IF fs < l THEN fs ELSE l - 1
        masked == IF l = -1 THEN {}
                  ELSE {cc, dd} \cup {cur[i][1] : i \in 0 .. upto}
                                \cup {cur[i][2] : i \in 0 .. upto}
        sgn0 == st.acc_sign[l + 1]
        sgn1 == IF l = -1 THEN sgn0
                ELSE Xor(Xor(sgn0, Xor((cc + dd) % 2, 1)),
                         CrossSign(cur, upto, cc, dd))
        sgn == IF l = -1 \/ skip THEN sgn1
               ELSE Xor(sgn1, RemoveSign(c.rev_idxs, masked, c.n, cc, dd))
        acc == [st.acc_sign EXCEPT ![l + 2] = sgn]
        ot1 == ResizeTensors(st.ot_tensors, c.ot_count + l + 1)
        ot2 == IF l = -1 \/ skip THEN ot1
               ELSE [ot1 EXCEPT ![c.ot_count + l + 1] =
                        kronecker_delta(<<c.cd[cc + 1].indices[1],
                                          c.cd[dd + 1].indices[1]>>)]
        que2 == IF c.no_ctr THEN que1
                ELSE que1 \o [m \in 1 .. Len(c.ctr_idxs) - k |-> <<l + 1, k + m - 1>>]
        left == SelectSeq(c.tensor_idxs, LAMBDA p : p \notin masked)
        ot3 == ot2 \o [q \in 1 .. Len(left) |-> c.cd[left[q] + 1]]
    IN  IF skip
        THEN [st EXCEPT !.que = que1, !.cur_idxs = cur, !.acc_sign = acc,
                        !.ot_tensors = ot1]
        ELSE IF Pruned(c, l)
        THEN [st EXCEPT !.que = que2, !.cur_idxs = cur, !.acc_sign = acc,
                        !.ot_tensors = ot2]
        ELSE [que |-> que2, cur_idxs |-> cur, acc_sign |-> acc,
              ot_tensors |-> ot3,
              terms |-> Append(st.terms,
                           WickString(ot3, c.x.ctr_indices,
                                      IF sgn = 1 THEN -c.x.factor
                                      ELSE c.x.factor)),
              hist |-> Append(st.hist, [q \in 1 .. l + 1 |-> cur[q - 1]])]

RECURSIVE NOLoop(_, _)
NOLoop(c, st) == IF st.que = <<>> THEN st ELSE NOLoop(c, NOStep(c, st))

normal_order_impl_new(x, max_unctr, no_ctr) ==
    LET c == NOContext(x, max_unctr, no_ctr)
    IN  NOLoop(c, NOStart(c)).terms

\* the terms of every string, one string after the other
RECURSIVE Flatten(_)
Flatten(ss) == IF ss = <<>> THEN <<>> ELSE Head(ss) \o Flatten(Tail(ss))

normal_order_impl(terms, max_unctr, no_ctr) ==
    Flatten([k \in 1 .. Len(terms) |->
                normal_order_impl_new(terms[k], max_unctr, no_ctr)])

\* WickExpr split_index_types() const
split_index_types_all(terms) ==
    Flatten([k \in 1 .. Len(terms) |-> split_index_types(terms[k])])

expand(terms, max_unctr, no_ctr) ==
    normal_order_impl(split_index_types_all(terms), max_unctr, no_ctr)

----------------------------------------------------------------------------
(* WickExpr::simplify_delta, simplify_zero, simplify_merge, simplify *)

expr_simplify_delta_Skip(terms) == terms

expr_simplify_delta(terms) == [k \in 1 .. Len(terms) |-> simplify_delta(terms[k])]

\* abs(rr.factor) > 1E-12 on the integer factors of the model
simplify_zero(terms) ==
    SelectSeq(terms, LAMBDA rr : rr.factor # 0 /\ Len(rr.tensors) # 0)

\* the factor added to the representative without the two signs
MergeAdd_NoSign(second, factor, si, sj) == second + factor

\* ridxs[j].second += terms[i].factor * sorted[i].factor * sorted[..].factor
MergeAdd(second, factor, si, sj) == second + factor * si * sj

\* the loop over the terms that fills ridxs: pairs <<first, second>>
RECURSIVE MergeLoop(_, _, _, _)
MergeLoop(terms, sorted, ridxs, i) ==
    IF i > Len(terms) THEN ridxs
    ELSE LET hits == {j \in 1 .. Len(ridxs) :
                         abs_equal_to(sorted[i], sorted[ridxs[j][1]])}
             j == CHOOSE j \in hits : \A m \in hits : j <= m
         IN  IF hits = {}
             THEN MergeLoop(terms, sorted,
                            Append(ridxs, <<i, terms[i].factor>>), i + 1)
             ELSE MergeLoop(terms, sorted,
                            [ridxs EXCEPT ![j] =
                                <<@[1], MergeAdd(@[2], terms[i].factor,
                                                 sorted[i].factor,
                                                 sorted[@[1]].factor)>>],
                            i + 1)

\* std::sort of the terms (insertion sort on the short vectors of the model)
RECURSIVE InsertString(_, _)
InsertString(s, t) ==
    IF s = <<>> THEN <<t>>
    ELSE IF StringLess(t, s[Len(s)])
    THEN Append(InsertString(SubSeq(s, 1, Len(s) - 1), t), s[Len(s)])
    ELSE Append(s, t)

RECURSIVE SortStrings(_)
SortStrings(s) ==
    IF s = <<>> THEN <<>>
    ELSE InsertString(SortStrings(SubSeq(s, 1, Len(s) - 1)), s[Len(s)])

\* the part of simplify_merge after the parallel region
MergeSorted(terms, sorted) ==
    LET ridxs == MergeLoop(terms, sorted, <<>>, 1)
    IN  SortStrings(simplify_zero(
            [m \in 1 .. Len(ridxs) |->
                [terms[ridxs[m][1]] EXCEPT !.factor = ridxs[m][2]]]))

simplify_merge(terms) ==
    MergeSorted(terms, [k \in 1 .. Len(terms) |-> quick_sort(abs(terms[k]))])

simplify(terms) == simplify_merge(simplify_zero(expr_simplify_delta(terms)))

----------------------------------------------------------------------------
(* Wick operations *)

WickNames == {"i", "j"}

\* the types idx_map gives a name: none, one class, or two classes at once
TypeChoices == {None, Inactive, Active, External, TypesOr(Inactive, Active)}

IdxMaps == [WickNames -> TypeChoices]

OpSeqs == UNION {SeqsOfLen({"C", "D"} \X WickNames, n) : n \in 1 .. MaxTensors}

Factors == {1, -1}

NoWick == [op |-> "none", max_unctr |-> -1, no_ctr |-> FALSE]

\* WickString::parse of "<factor> SUM <ctr> <ops>" under idx_map
ParseString(factor, ctr, ops, idx_map) ==
    WickString([k \in 1 .. Len(ops) |-> ParseTensor(ops[k][1], ops[k][2], idx_map)],
               {add_types(WickIndex(nm, None), idx_map) : nm \in ctr},
               factor)

WickParse(factor, ctr, ops, idx_map) ==
    /\ wpc = "idle"
    /\ wx' = <<ParseString(factor, ctr, ops, idx_map)>>
    /\ wr' = <<>>
    /\ wpc' = "parsed"
    /\ wlast' = [NoWick EXCEPT !.op = "parse"]
    /\ UNCHANGED nonwick

WickExpand(max_unctr, no_ctr) ==
    /\ wpc = "parsed"
    /\ wr' = expand(wx, max_unctr, no_ctr)
    /\ wpc' = "expanded"
    /\ wlast' = [op |-> "expand", max_unctr |-> max_unctr, no_ctr |-> no_ctr]
    /\ UNCHANGED <<wx, nonwick>>

\* the expression and its expansion go out of scope
WickDiscard ==
    /\ wpc = "expanded"
    /\ wx' = <<>> /\ wr' = <<>> /\ wpc' = "idle" /\ wlast' = NoWick
    /\ UNCHANGED nonwick

InitWick == wx = <<>> /\ wr = <<>> /\ wpc = "idle" /\ wlast = NoWick

NextWick ==
    \/ \E factor \in Factors, ctr \in SUBSET WickNames, ops \in OpSeqs,
          idx_map \in IdxMaps : WickParse(factor, ctr, ops, idx_map)
    \/ \E max_unctr \in {-1, 0}, no_ctr \in BOOLEAN : WickExpand(max_unctr, no_ctr)
    \/ WickDiscard

\* the operator strings X[i] Y[j] that follow the tensor h
OpPairs == {<<<<a, "i">>, <<b, "j">>>> : a \in {"C", "D"}, b \in {"C", "D"}}

HIndexOrders == {<<"i", "j">>, <<"j", "i">>}

\* perm_map gives h no entry (non-symmetric) or the two-index symmetry
HPermMaps == {non_symmetric, two_symmetric}

\* WickString::parse of "<factor> SUM <ctr> h[<hidx>] <ops>" under idx_map
\* and a perm_map that maps ("h", 2) to hperms
ParseHString(factor, ctr, hidx, hperms, ops, idx_map) ==
    WickString(<<WickTensor("h",
                            [k \in 1 .. Len(hidx) |->
                                add_types(WickIndex(hidx[k], None), idx_map)],
                            hperms, Tensor)>>
               \o [k \in 1 .. Len(ops) |-> ParseTensor(ops[k][1], ops[k][2], idx_map)],
               {add_types(WickIndex(nm, None), idx_map) : nm \in ctr},
               factor)

WickParseH(factor, ctr, hidx, hperms, ops, idx_map) ==
    /\ wx' = <<ParseHString(factor, ctr, hidx, hperms, ops, idx_map)>>
    /\ wr' = <<>>
    /\ wpc' = "parsed"
    /\ wlast' = [NoWick EXCEPT !.op = "parse"]
    /\ UNCHANGED nonwick

\* WickExpr::simplify of the expansion
WickSimplify ==
    /\ wpc = "expanded"
    /\ wr' = simplify(wr)
    /\ wpc' = "simplified"
    /\ wlast' = [wlast EXCEPT !.op = "simplify"]
    /\ UNCHANGED <<wx, nonwick>>

\* the expression and its simplified expansion go out of scope
WickForget ==
    /\ wpc = "simplified"
    /\ wx' = <<>> /\ wr' = <<>> /\ wpc' = "idle" /\ wlast' = NoWick
    /\ UNCHANGED nonwick

NextSimplify ==
    \/ /\ wpc = "idle"
       /\ \E factor \in Factors, ctr \in SUBSET WickNames, hidx \in HIndexOrders,
             hperms \in HPermMaps, ops \in OpPairs, idx_map \in IdxMaps :
              WickParseH(factor, ctr, hidx, hperms, ops, idx_map)
    \/ \E max_unctr \in {-1, 0}, no_ctr \in BOOLEAN : WickExpand(max_unctr, no_ctr)
    \/ WickSimplify
    \/ WickForget

----------------------------------------------------------------------------
(* WickPermutation::complete_set, one iteration of the k loop per step *)

\* the predefined generator sets with the n they are made for
GenSets ==
    {[n |-> 1, def |-> non_symmetric], [n |-> 2, def |-> two_symmetric],
     [n |-> 4, def |-> qc_chem], [n |-> 4, def |-> qc_phys],
     [n |-> 4, def |-> four_anti]}
    \cup {[n |-> 2 * k, def |-> pair_symmetric(k, hermitian)] :
              k \in 1 .. MaxPairs, hermitian \in BOOLEAN}

CompleteSetBegin(g) ==
    /\ ppc = "idle"
    /\ pn' = g.n
    /\ pdef' = g.def
    /\ vwp' = <<Ident(g.n)>>
    /\ pk' = 1
    /\ ppc' = "loop"
    /\ UNCHANGED nonperm

CompleteSetIter ==
    /\ ppc = "loop"
    /\ ~ LoopDone(vwp, pk)
    /\ vwp' = CompleteInner(vwp, vwp[pk], pdef, 1)
    /\ pk' = pk + 1
    /\ UNCHANGED <<pn, pdef, ppc>>
    /\ UNCHANGED nonperm

CompleteSetReturn ==
    /\ ppc = "loop"
    /\ LoopDone(vwp, pk)
    /\ ppc' = "done"
    /\ UNCHANGED <<pn, pdef, vwp, pk>>
    /\ UNCHANGED nonperm

CompleteSetDiscard ==
    /\ ppc = "done"
    /\ pn' = 0
    /\ pdef' = <<>>
    /\ vwp' = <<>>
    /\ pk' = 0
    /\ ppc' = "idle"
    /\ UNCHANGED nonperm

InitPerm == pn = 0 /\ pdef = <<>> /\ vwp = <<>> /\ pk = 0 /\ ppc = "idle"

NextPerm ==
    \/ \E g \in GenSets : CompleteSetBegin(g)
    \/ CompleteSetIter
    \/ CompleteSetReturn
    \/ CompleteSetDiscard

----------------------------------------------------------------------------
(* Operations on one WickTensor *)

NoTensor == [name |-> "", indices |-> <<>>, perms |-> <<>>, type |-> Tensor]

TypedIndices ==
    {WickIndex(nm, ty) : nm \in WickNames,
                         ty \in {None, Inactive, Active, TypesOr(Inactive, Active)}}

\* the tensors with a predefined symmetry: name, number of indices, generators
TensorKinds ==
    {[name |-> "h", n |-> 2, perms |-> non_symmetric],
     [name |-> "h", n |-> 2, perms |-> two_symmetric],
     [name |-> "h", n |-> 4, perms |-> qc_chem],
     [name |-> "h", n |-> 4, perms |-> qc_phys],
     [name |-> "h", n |-> 4, perms |-> four_anti],
     [name |-> "h", n |-> 4, perms |-> pair_symmetric(2, FALSE)]}

TensorNew(kind, indices, factor) ==
    /\ tt = NoTensor
    /\ tt' = WickTensor(kind.name, indices, kind.perms, Tensor)
    /\ tf' = factor
    /\ thist' = <<>>
    /\ UNCHANGED nontensor

\* tt = tt.sort(tf)
TensorSort ==
    /\ tt # NoTensor
    /\ Len(thist) < MaxSorts
    /\ LET r == sort(tt, tf)
       IN  tt' = r[1] /\ tf' = r[2]
    /\ thist' = Append(thist, <<tt, tf>>)
    /\ UNCHANGED nontensor

TensorDiscard ==
    /\ tt # NoTensor
    /\ tt' = NoTensor
    /\ tf' = 1
    /\ thist' = <<>>
    /\ UNCHANGED nontensor

InitTensor == tt = NoTensor /\ tf = 1 /\ thist = <<>>

NextTensor ==
    \/ /\ tt = NoTensor
       /\ \E kind \in TensorKinds, factor \in Factors :
             \E indices \in SeqsOfLen(TypedIndices, kind.n) :
                TensorNew(kind, indices, factor)
    \/ TensorSort
    \/ TensorDiscard

----------------------------------------------------------------------------
(* Calls of WickString::simplify_delta *)

NoString == WickString(<<>>, {}, 0)

IndexNames == {"i", "j", "k"}

\* the index types an idx_map gives to the three names
DeltaIdxMaps ==
    {m \in [IndexNames -> {None, Inactive, Active}] : m["k"] = Inactive}

NamePairs == IndexNames \X IndexNames

\* h followed by delta tensors, over typed indices
DeltaString(deltas, hp, m, ctr) ==
    WickString(
        <<WickTensor("h", <<WickIndex(hp[1], m[hp[1]]),
                            WickIndex(hp[2], m[hp[2]])>>,
                     non_symmetric, Tensor)>>
        \o [q \in 1 .. Len(deltas) |->
               kronecker_delta(<<WickIndex(deltas[q][1], m[deltas[q][1]]),
                                 WickIndex(deltas[q][2], m[deltas[q][2]])>>)],
        {WickIndex(nm, m[nm]) : nm \in ctr}, 1)

DeltaStrings(max) ==
    {DeltaString(deltas, hp, m, ctr) :
        deltas \in UNION {SeqsOfLen(NamePairs, n) : n \in 1 .. max},
        hp \in NamePairs, m \in DeltaIdxMaps, ctr \in SUBSET IndexNames}

SimplifyDelta(x) ==
    /\ spc = "idle"
    /\ sx' = x
    /\ sy' = NoString
    /\ sr' = simplify_delta(x)
    /\ spc' = "simplify_delta"
    /\ UNCHANGED nonstring

StringDiscard ==
    /\ spc # "idle"
    /\ sx' = NoString
    /\ sy' = NoString
    /\ sr' = NoString
    /\ spc' = "idle"
    /\ UNCHANGED nonstring

InitString == sx = NoString /\ sy = NoString /\ sr = NoString /\ spc = "idle"

NextDelta ==
    \/ spc = "idle" /\ \E x \in DeltaStrings(MaxDeltas) : SimplifyDelta(x)
    \/ StringDiscard

----------------------------------------------------------------------------
(* Calls of WickString::operator* *)

\* SUM <ctr> name[xy] over typeless indices
OneTensorString(name, xy, ctr, factor) ==
    WickString(<<WickTensor(name, <<WickIndex(xy[1], None), WickIndex(xy[2], None)>>,
                            non_symmetric, Tensor)>>,
               {WickIndex(nm, None) : nm \in ctr}, factor)

MulOperands(factor) ==
    {OneTensorString("h", xy, ctr, factor) :
        xy \in NamePairs, ctr \in SUBSET IndexNames}

Multiply(a, b) ==
    /\ spc = "idle"
    /\ sx' = a
    /\ sy' = b
    /\ sr' = Mul(a, b)
    /\ spc' = "operator*"
    /\ UNCHANGED nonstring

NextMul ==
    \/ spc = "idle" /\ \E a, b \in MulOperands(MulFactor) : Multiply(a, b)
    \/ StringDiscard

----------------------------------------------------------------------------
(* Calls of WickString::substitute *)

Untyped(name, xy) ==
    WickTensor(name, <<WickIndex(xy[1], None), WickIndex(xy[2], None)>>,
               non_symmetric, Tensor)

\* A[ab] := factor * SUM <s> h[as] h[sb]
ChainDef(a, b, s, factor) ==
    "A" :> [first |-> Untyped("A", <<a, b>>),
            second |-> <<WickString(<<Untyped("h", <<a, s>>),
                                      Untyped("h", <<s, b>>)>>,
                                    {WickIndex(s, None)}, factor)>>]

SubstDefs == {ChainDef("i", "j", "k", -1), ChainDef("k", "l", "i", -1)}

\* SUM <ctr> of two tensors named A or h
SubstStrings(factor) ==
    {WickString(<<Untyped(n1, p1), Untyped(n2, p2)>>,
                {WickIndex(nm, None) : nm \in ctr}, factor) :
        n1 \in {"A", "h"}, n2 \in {"A", "h"}, p1 \in NamePairs, p2 \in NamePairs,
        ctr \in SUBSET IndexNames}

Substitute(x, defs) ==
    /\ spc = "idle"
    /\ sx' = x
    /\ sy' = defs
    /\ sr' = substitute(x, defs)
    /\ spc' = "substitute"
    /\ UNCHANGED nonstring

NextSubst ==
    \/ spc = "idle" /\ \E x \in SubstStrings(1), defs \in SubstDefs : Substitute(x, defs)
    \/ StringDiscard

----------------------------------------------------------------------------
(* Calls of WickExpr::simplify_merge *)

\* h[xy] = -h[yx], a symmetry given through perm_map
two_anti == <<WickPermutation(<<1, 0>>, TRUE)>>

MergeSymmetries == {non_symmetric, two_symmetric, two_anti}

\* factor * SUM <ctr> h[..] h[..] ... over typeless indices
HString(pairs, perms, ctr, factor) ==
    WickString([q \in 1 .. Len(pairs) |->
                   WickTensor("h", <<WickIndex(pairs[q][1], None),
                                     WickIndex(pairs[q][2], None)>>,
                              perms, Tensor)],
               {WickIndex(nm, None) : nm \in ctr}, factor)

NamesOf(pairs) == UNION {{pairs[q][1], pairs[q][2]} : q \in 1 .. Len(pairs)}

\* the terms of one symmetry: one tensor over i, j with some of its indices
\* summed, or two tensors over i, j with all indices summed; every summed
\* index occurs in a tensor (the assertion of quick_sort)
MergeTerms(perms) ==
    {HString(<<p>>, perms, ctr, factor) :
        p \in WickNames \X WickNames, ctr \in SUBSET WickNames,
        factor \in MergeFactors}
    \cup {HString(<<p, q>>, perms, NamesOf(<<p, q>>), factor) :
              p \in WickNames \X WickNames, q \in WickNames \X WickNames,
              factor \in MergeFactors}

WellFormed(x) == x.ctr_indices \subseteq used_indices(x)

MergeExprs(n, perms) ==
    [1 .. n -> {x \in MergeTerms(perms) : WellFormed(x)}]

SimplifyMerge(terms) ==
    /\ spc = "idle"
    /\ sx' = terms
    /\ sy' = NoString
    /\ sr' = simplify_merge(terms)
    /\ spc' = "simplify_merge"
    /\ UNCHANGED nonstring

NextMerge ==
    \/ spc = "idle" /\ \E perms \in MergeSymmetries :
             \E terms \in MergeExprs(MaxTerms, perms) : SimplifyMerge(terms)
    \/ StringDiscard

----------------------------------------------------------------------------
(* The parallel regions of normal_order_impl and simplify_merge *)

\* threading->activate_global(): the number of threads of the region
ThreadCounts == 1 .. MaxThreads

\* threading->get_thread_id() in thread t of the team, t = 0 .. ntg - 1
get_thread_id(t) == t

\* schedule(static) without a chunk size: at most one chunk of consecutive
\* iterations per thread, the chunks in the order of the thread numbers;
\* own[k] is the thread of iteration k
StaticSchedules(n, ntg) ==
    {own \in [1 .. n -> 0 .. ntg - 1] :
        \A a \in 1 .. n, b \in 1 .. n : a < b => own[a] <= own[b]}

\* the iterations of thread tid, in the order the thread runs them
Chunk(own, tid) ==
    SelectSeq([k \in 1 .. Len(own) |-> k], LAMBDA k : own[k] = tid)

Slot_Shared(op, tid, k) == 1

\* the element of r or of sorted an iteration writes, as a 1-based position:
\* r[tid] in normal_order_impl, sorted[k] in simplify_merge
Slot(op, tid, k) == IF op = "normal_order_impl" THEN tid + 1 ELSE k

\* vector<WickExpr> r(ntg) and vector<WickString> sorted(terms.size())
EmptySlots(op, n, ntg) ==
    IF op = "normal_order_impl" THEN [t \in 1 .. ntg |-> <<>>]
    ELSE [k \in 1 .. n |-> WickString(<<>>, {}, 0)]

NoOmp == [op |-> "none", terms |-> <<>>, max_unctr |-> -1, no_ctr |-> FALSE,
          ntg |-> 0, own |-> <<>>]

\* int ntg = threading->activate_global(); the team starts on the loop
ParallelBegin(op, terms, max_unctr, no_ctr, ntg, own) ==
    /\ oin' = [op |-> op, terms |-> terms, max_unctr |-> max_unctr,
               no_ctr |-> no_ctr, ntg |-> ntg, own |-> own]
    /\ odone' = [t \in 0 .. ntg - 1 |-> 0]
    /\ oslots' = EmptySlots(op, Len(terms), ntg)
    /\ olog' = <<>>
    /\ ores' = <<>>
    /\ opc' = "parallel"
    /\ UNCHANGED nonomp

\* the value one iteration stores
IterationValue(in, slots, s, k) ==
    IF in.op = "normal_order_impl"
    THEN slots[s] \o normal_order_impl_new(in.terms[k], in.max_unctr, in.no_ctr)
    ELSE quick_sort(abs(in.terms[k]))

\* thread t runs the next iteration of its chunk
ThreadStep(t) ==
    /\ opc = "parallel"
    /\ odone[t] < Len(Chunk(oin.own, t))
    /\ LET k == Chunk(oin.own, t)[odone[t] + 1]
           tid == get_thread_id(t)
           s == Slot(oin.op, tid, k)
       IN  /\ oslots' = [oslots EXCEPT ![s] = IterationValue(oin, oslots, s, k)]
           /\ olog' = Append(olog, [tid |-> tid, k |-> k, slot |-> s])
    /\ odone' = [odone EXCEPT ![t] = @ + 1]
    /\ UNCHANGED <<oin, ores, opc, nonomp>>

AllDone == \A t \in DOMAIN odone : odone[t] = Len(Chunk(oin.own, t))

\* the barrier at the end of the loop, activate_normal, and the sequential
\* part: the concatenation of r, or the merge over sorted
ParallelReturn ==
    /\ opc = "parallel"
    /\ AllDone
    /\ ores' = IF oin.op = "normal_order_impl" THEN Flatten(oslots)
               ELSE MergeSorted(oin.terms, oslots)
    /\ opc' = "returned"
    /\ UNCHANGED <<oin, odone, oslots, olog, nonomp>>

OmpDiscard ==
    /\ opc = "returned"
    /\ oin' = NoOmp /\ odone' = <<>> /\ oslots' = <<>> /\ olog' = <<>>
    /\ ores' = <<>> /\ opc' = "idle"
    /\ UNCHANGED nonomp

InitOmp ==
    /\ oin = NoOmp /\ odone = <<>> /\ oslots = <<>> /\ olog = <<>>
    /\ ores = <<>> /\ opc = "idle"

\* strings to normal order: C[i] D[j], D[i] C[j] and C[i] D[i], i and j Inactive
OrderStrings ==
    {ParseString(1, {}, ops, [n \in WickNames |-> Inactive]) :
        ops \in {<<<<"C", "i">>, <<"D", "j">>>>, <<<<"D", "i">>, <<"C", "j">>>>,
                 <<<<"C", "i">>, <<"D", "i">>>>}}

\* terms to merge: SUM <ij> h[ij], - SUM <ij> h[ji] and SUM <i> h[ii], h symmetric
SortStringsIn ==
    {HString(<<<<"i", "j">>>>, two_symmetric, {"i", "j"}, 1),
     HString(<<<<"j", "i">>>>, two_symmetric, {"i", "j"}, -1),
     HString(<<<<"i", "i">>>>, two_symmetric, {"i"}, 1)}

ParallelTerms(op, n) ==
    [1 .. n -> IF op = "normal_order_impl" THEN OrderStrings ELSE SortStringsIn]

NextOmp ==
    \/ /\ opc = "idle"
       /\ \E op \in {"normal_order_impl", "simplify_merge"}, n \in 1 .. MaxIter,
             ntg \in ThreadCounts :
            \E terms \in ParallelTerms(op, n), own \in StaticSchedules(n, ntg) :
              ParallelBegin(op, terms, -1, FALSE, ntg, own)
    \/ \E t \in DOMAIN odone : ThreadStep(t)
    \/ ParallelReturn
    \/ OmpDiscard

----------------------------------------------------------------------------
(* Calls of normal_order_impl_new on strings of creation / destroy operators *)

NoOrder == [x |-> WickString(<<>>, {}, 0), max_unctr |-> -1, no_ctr |-> FALSE]

NoTraversal == [que |-> <<>>, terms |-> <<>>, hist |-> <<>>]

OrderClasses == {Inactive, Active, External}

\* the index names of n operators in string order: i, j, k, ... or the reverse
OrderNames(n) ==
    LET first == CHOOSE k \in 1 .. Len(StrOrder) : StrOrder[k] = "i"
    IN  {[p \in 1 .. n |-> StrOrder[first + p - 1]],
         [p \in 1 .. n |-> StrOrder[first + n - p]]}

\* factor * X1[n1] ... Xn[nn], every X a C or a D, every index of one class
OperatorStrings(n, factor) ==
    {WickString([p \in 1 .. n |->
                    ParseTensor(kinds[p], names[p], (names[p] :> classes[p]))],
                {}, factor) :
        kinds \in [1 .. n -> {"C", "D"}], classes \in [1 .. n -> OrderClasses],
        names \in OrderNames(n)}

\* the tables are built and que holds (-1, -1)
OrderBegin(x, max_unctr, no_ctr) ==
    /\ nc' = NOContext(x, max_unctr, no_ctr)
    /\ nst' = NOStart(NOContext(x, max_unctr, no_ctr))
    /\ npc' = "loop"
    /\ UNCHANGED nonorder

\* while (!que.empty()): one iteration
OrderStep ==
    /\ npc = "loop"
    /\ nst.que # <<>>
    /\ nst' = NOStep(nc, nst)
    /\ UNCHANGED <<nc, npc, nonorder>>

\* return r
OrderReturn ==
    /\ npc = "loop"
    /\ nst.que = <<>>
    /\ npc' = "done"
    /\ UNCHANGED <<nc, nst, nonorder>>

OrderDiscard ==
    /\ npc = "done"
    /\ nc' = NoOrder /\ nst' = NoTraversal /\ npc' = "idle"
    /\ UNCHANGED nonorder

InitOrder == nc = NoOrder /\ nst = NoTraversal /\ npc = "idle"

\* the arguments: the defaults, each cap alone, both caps
OrderArgs ==
    {<<-1, FALSE>>, <<0, FALSE>>, <<2, FALSE>>, <<-1, TRUE>>, <<0, TRUE>>}

NextOrder ==
    \/ /\ npc = "idle"
       /\ \E n \in 1 .. MaxOperators, factor \in Factors, args \in OrderArgs :
            \E x \in OperatorStrings(n, factor) : OrderBegin(x, args[1], args[2])
    \/ OrderStep
    \/ OrderReturn
    \/ OrderDiscard

\* the same calls on the strings with factor 1 and the names i, j, k, ...
NextEnumerate ==
    \/ /\ npc = "idle"
       /\ \E n \in 1 .. MaxOperators, args \in OrderArgs :
            \E x \in {y \in OperatorStrings(n, 1) :
                         y.tensors[1].indices[1].name = "i"} :
               OrderBegin(x, args[1], args[2])
    \/ OrderStep
    \/ OrderReturn
    \/ OrderDiscard

----------------------------------------------------------------------------
(* Specifications: one component runs, the others are at rest *)

\* the dispatch layer at rest while the trie runs, and conversely
DelayedAtRest ==
    /\ seq_mode = "None" /\ dlive = {} /\ queue = <<>> /\ tmpv = <<>> /\ nid = 0
    /\ dpc = "ready" /\ ncall = 0 /\ dlog = <<>> /\ dlast = NoInfo

TrieAtRest ==
    /\ n_sites = 1 /\ enable_look_up = FALSE /\ su2 = FALSE
    /\ data = <<ZeroNode>> /\ dets = <<>> /\ invs = <<>> /\ vals = <<>>
    /\ tpc = "idle" /\ neval = 0 /\ pushed = <<>> /\ evalFilled = FALSE
    /\ est = NoEval /\ earg = NoArg
    /\ last = NoOp

WickAtRest == InitWick

PermAtRest == InitPerm

TensorAtRest == InitTensor

StringAtRest == InitString

OmpAtRest == InitOmp

OrderAtRest == InitOrder

OthersAtRest ==
    PermAtRest /\ TensorAtRest /\ StringAtRest /\ OmpAtRest /\ OrderAtRest

TrieRuns == InitTrie /\ DelayedAtRest /\ WickAtRest /\ OthersAtRest
DelayedRuns == InitDelayed /\ TrieAtRest /\ WickAtRest /\ OthersAtRest
WickRuns == InitWick /\ TrieAtRest /\ DelayedAtRest /\ OthersAtRest
PermRuns ==
    /\ InitPerm
    /\ TrieAtRest /\ DelayedAtRest /\ WickAtRest /\ TensorAtRest /\ StringAtRest
    /\ OmpAtRest /\ OrderAtRest
TensorRuns ==
    /\ InitTensor
    /\ TrieAtRest /\ DelayedAtRest /\ WickAtRest /\ PermAtRest /\ StringAtRest
    /\ OmpAtRest /\ OrderAtRest
StringRuns ==
    /\ InitString
    /\ TrieAtRest /\ DelayedAtRest /\ WickAtRest /\ PermAtRest /\ TensorAtRest
    /\ OmpAtRest /\ OrderAtRest
OmpRuns ==
    /\ InitOmp
    /\ TrieAtRest /\ DelayedAtRest /\ WickAtRest /\ PermAtRest /\ TensorAtRest
    /\ StringAtRest /\ OrderAtRest
OrderRuns ==
    /\ InitOrder
    /\ TrieAtRest /\ DelayedAtRest /\ WickAtRest /\ PermAtRest /\ TensorAtRest
    /\ StringAtRest /\ OmpAtRest

SpecTrie == TrieRuns /\ [][NextTrie]_vars

\* evaluate taken one loop iteration at a time; the loop runs to its end
SpecEvaluate ==
    /\ TrieRuns
    /\ [][NextEvaluate]_vars
    /\ WF_vars(EvalIterate)
    /\ WF_vars(EvalReturn)

SpecDelayed == DelayedRuns /\ [][NextDelayed]_vars

SpecWick == WickRuns /\ [][NextWick]_vars

SpecPerm == PermRuns /\ [][NextPerm]_vars

SpecTensor == TensorRuns /\ [][NextTensor]_vars

SpecDelta == StringRuns /\ [][NextDelta]_vars

SpecMul == StringRuns /\ [][NextMul]_vars

SpecSubst == StringRuns /\ [][NextSubst]_vars

SpecMerge == StringRuns /\ [][NextMerge]_vars

SpecSimplify == WickRuns /\ [][NextSimplify]_vars

SpecOmp == OmpRuns /\ [][NextOmp]_vars

SpecOrder == OrderRuns /\ [][NextOrder]_vars

\* the loop is not suspended: an iteration that can run, runs
SpecOrderFair ==
    /\ OrderRuns /\ [][NextEnumerate]_vars
    /\ WF_vars(OrderStep) /\ WF_vars(OrderReturn)

----------------------------------------------------------------------------
(* Properties of the dispatch layer *)

Builds == {i \in 1 .. Len(dlog) : dlog[i].ev = "build"}
Deallocs(buf) == {j \in 1 .. Len(dlog) : dlog[j].ev = "dealloc" /\ dlog[j].buf = buf}
Execs == {i \in 1 .. Len(dlog) : dlog[i].ev = "exec"}

\* C1: when a dispatch operation has returned, every matrix it forced by
\* build() was deallocated exactly once, after its build, and only output
\* storage is still allocated
C1ForcedFreed ==
    /\ dpc \in {"idle", "ready"} => \A b \in dlive : b[1] = "out"
    /\ dpc = "idle" =>
          /\ \A i \in Builds :
                /\ Cardinality(Deallocs(dlog[i].buf)) = 1
                /\ \A j \in Deallocs(dlog[i].buf) : j > i
          /\ \A j \in 1 .. Len(dlog) :
                (dlog[j].ev = "dealloc" /\ dlog[j].buf[1] = "forced") =>
                    \E i \in Builds : i < j /\ dlog[i].buf = dlog[j].buf

C1Witness ==
    /\ dpc = "idle"
    /\ dlast.op = "tensor_product" /\ dlast.type = "SumProd"
    /\ Cardinality(Builds) = 3
    /\ dlive = {}

\* C2: every kernel operation that reads a forced matrix is executed after the
\* build and before the deallocation of that matrix, in every sequencing mode
C2NoStaleRead ==
    \A i \in Execs : \A b \in dlog[i].stale : b[1] # "forced"

\* C3: with operands replaced by Delayed placeholders, tensor_product,
\* tensor_product_multiply and tensor_product_diagonal issue the kernel calls
\* of the materialized run, and every kernel call reads from a forced copy
\* the contents of the matrix it stands for
C3Transparent ==
    (dpc = "idle" /\ dlast.anyDelayed /\
     dlast.op \in {"tensor_product", "tensor_product_multiply",
                   "tensor_product_diagonal"}) =>
        /\ Issued(dlog) = dlast.ref
        /\ \A i \in Execs :
              /\ dlog[i].call.l.buf[1] = "forced" => dlog[i].lv = dlog[i].call.l.val
              /\ dlog[i].call.r.buf[1] = "forced" => dlog[i].rv = dlog[i].call.r.val

\* C4: tensor_product on a Prod or SumProd node that refers to a key absent
\* from lop / rop fails by assertion before any allocation, build or kernel call
C4AbsentAsserts ==
    (dlast.op = "tensor_product" /\ dlast.type \in {"Prod", "SumProd"} /\
     dlast.absent) =>
        (dpc = "failed" /\ dlast.fail = "assert" /\ dlog = <<>>)

\* the storage of one kind ("forced" or "tmp") that is allocated after the
\* first i events of the call
LiveAfter(i, kind) ==
    {b \in {dlog[j].buf : j \in 1 .. i} :
        /\ b[1] = kind
        /\ \E j \in 1 .. i :
              /\ dlog[j].ev \in {"build", "alloc"} /\ dlog[j].buf = b
              /\ \A j2 \in (j + 1) .. i : ~(dlog[j2].ev = "dealloc" /\ dlog[j2].buf = b)}

\* C21: at every point of a dispatch call at most two forced copies of
\* Delayed operands and at most one scratch matrix are allocated, whatever
\* the number of entries of the expression or of the operator tensor
C21PeakMemory ==
    \A i \in 1 .. Len(dlog) :
        /\ Cardinality(LiveAfter(i, "forced")) <= 2
        /\ Cardinality(LiveAfter(i, "tmp")) <= 1

\* a tensor_product over a Sum has returned; it held two forced copies at
\* one time and built four
C21Witness ==
    /\ dpc = "idle"
    /\ dlast.op = "tensor_product" /\ dlast.type = "Sum"
    /\ Cardinality(Builds) = 4
    /\ \E i \in 1 .. Len(dlog) : Cardinality(LiveAfter(i, "forced")) = 2

\* the positions of the events of one kind, in order
EventsOf(ev) == SelectSeq([i \in 1 .. Len(dlog) |-> i], LAMBDA i : dlog[i].ev = ev)

RotateDone == dlast.op \in {"left_rotate", "right_rotate"}

\* the first build or kernel call of the log
FirstSource ==
    LET S == {i \in 1 .. Len(dlog) : dlog[i].ev \in {"build", "issue"}}
    IN  IF S = {} THEN Len(dlog) + 1 ELSE CHOOSE i \in S : \A j \in S : i <= j

\* the event after position i, the execution of the call at i left out
AfterCall(i) ==
    IF i + 1 <= Len(dlog) /\ dlog[i + 1].ev = "exec" THEN i + 2 ELSE i + 1

\* C25: left_rotate / right_rotate allocate the storage of every operator of
\* c before the first build or kernel call; they issue one tensor_rotate per
\* non-Zero entry, in entry order, into the matrix of c of that entry; a
\* Delayed source is built just before its call and deallocated just after
\* it, so that at most one forced copy is allocated; auto_perform is called
\* once, after the last entry, in Auto mode and never in the other modes
C25RotateOrder ==
    RotateDone =>
      LET iss == EventsOf("issue")
          ref == dlast.ref
      IN
      /\ \A j \in 1 .. Len(dlog) : dlog[j].ev = "alloc" => j < FirstSource
      /\ \A k \in 1 .. Len(ref) :
            \E j \in 1 .. FirstSource - 1 :
               dlog[j].ev = "alloc" /\ dlog[j].buf = <<"out", KeyIx(ref[k])>>
      /\ Len(iss) <= Len(ref)
      /\ dlast.fail = "none" => Len(iss) = Len(ref)
      /\ \A k \in 1 .. Len(iss) :
            LET call == dlog[iss[k]].call IN
            /\ call.k = "tensor_rotate"
            /\ call.l.val.key = ref[k]
            /\ call.out = <<"out", KeyIx(ref[k])>>
            /\ call.conj = BoolInt(dlast.op = "right_rotate")
            /\ call.l.buf[1] = "forced" =>
                  /\ dlog[iss[k] - 1].ev = "build"
                  /\ dlog[iss[k] - 1].buf = call.l.buf
                  /\ AfterCall(iss[k]) <= Len(dlog)
                  /\ dlog[AfterCall(iss[k])].ev = "dealloc"
                  /\ dlog[AfterCall(iss[k])].buf = call.l.buf
      /\ \A i \in Builds :
            i + 1 <= Len(dlog) => (dlog[i + 1].ev = "issue" /\
                                   dlog[i + 1].call.l.buf = dlog[i].buf)
      /\ \A i \in 1 .. Len(dlog) : Cardinality(LiveAfter(i, "forced")) <= 1
      /\ Len(EventsOf("auto_perform")) =
            (IF seq_mode = "Auto" /\ dlast.fail = "none" THEN 1 ELSE 0)
      /\ \A i \in 1 .. Len(dlog) : \A j \in 1 .. Len(dlog) :
            (dlog[i].ev = "auto_perform" /\ j > i) => dlog[j].ev = "exec"

\* a rotate over two Delayed entries has returned in Auto mode
C25Witness ==
    /\ RotateDone
    /\ dpc = "idle"
    /\ seq_mode = "Auto"
    /\ Len(dlast.ref) = 2
    /\ Cardinality(Builds) = 2
    /\ Len(EventsOf("auto_perform")) = 1

SumProdDone ==
    dlast.op = "tensor_product" /\ dlast.type = "SumProd" /\ dlast.fail = "none"

\* the events that acquire and release storage
Acquires == {i \in 1 .. Len(dlog) : dlog[i].ev \in {"alloc", "build"}}
ReleaseOf(i) == {j \in 1 .. Len(dlog) : dlog[j].ev = "dealloc" /\ dlog[j].buf = dlog[i].buf}

\* storage acquired while other storage is held is released before it
StackDiscipline ==
    \A i \in Acquires, j \in Acquires :
        i < j => \A ri \in ReleaseOf(i) :
                    \/ ri < j
                    \/ /\ ReleaseOf(j) # {}
                       /\ \A rj \in ReleaseOf(j) : rj < ri

Evaluates(expr, lop, rop) ==
    tensor_product(DStart(FALSE), expr, lop, rop, OutBuf).fail = "none"

\* C27: every expression tree of Zero, Prod, SumProd and Sum nodes that
\* tensor_product evaluates is evaluated by tensor_product_multiply and
\* tensor_product_diagonal without reaching the default assert(false)
C27SameSkeleton ==
    (/\ dlast.op \in {"tensor_product_multiply", "tensor_product_diagonal"}
     /\ dlast.arg.expr.type \in {"Zero", "Prod", "SumProd", "Sum"}
     /\ Evaluates(dlast.arg.expr, dlast.arg.lop, dlast.arg.rop))
        => dlast.fail = "none"

TransformDone == dlast.op = "numerical_transform" /\ dlast.fail = "none"

\* the terms of a batch: <<k, i>> for string i of the Sum exprs[k]
TermsOf(exprs) ==
    {<<k, i>> \in (1 .. Len(exprs)) \X (1 .. MaxOps) :
        exprs[k].type = "Sum" /\ i <= Len(exprs[k].strings)}

\* no Sum is longer than a->ops.size()
FitsOps(exprs, size) == \A t \in TermsOf(exprs) : t[2] <= size

\* the iadd calls of the log that apply term t
AppliedBy(names, exprs, t) ==
    LET str == exprs[t[1]].strings[t[2]] IN
    {i \in 1 .. Len(dlog) :
        /\ dlog[i].ev = "issue"
        /\ dlog[i].call.k = "iadd"
        /\ dlog[i].call.out = <<"out", KeyIx(names[t[1]])>>
        /\ dlog[i].call.l.val = Content("a", str.a)
        /\ dlog[i].call.factor = str.factor
        /\ dlog[i].call.conj = BoolInt(str.conj # 0)}

----------------------------------------------------------------------------
(* Properties of the trie *)

Recorded(det) ==
    LET leaf == FindWalk(data, 0, det, 1) IN leaf # 0 - 1 /\ leaf \in Range(dets)

\* C5: after push_back calls only (assertions passing), find returns the
\* 0-based insertion position of every inserted determinant and, with
\* enable_look_up, operator[] at that position rebuilds the determinant
C5RoundTrip ==
    (tpc = "idle" /\ ~evalFilled) =>
        \A i \in 1 .. Len(pushed) :
            /\ find(data, dets, pushed[i]) = i - 1
            /\ enable_look_up =>
                   Lookup(data, dets, invs, n_sites, i - 1) = pushed[i]

C5Witness ==
    /\ tpc = "idle" /\ ~evalFilled /\ enable_look_up
    /\ n_sites = 2 /\ Len(pushed) = 2
    /\ last.op = "push_back" /\ last.ok

\* C6: find returns -1 for every determinant of length n_sites whose leaf
\* is not recorded in dets, whether the walk stops at an absent child or the
\* leaf node exists unrecorded; an index it returns is that of the leaf
C6FindAbsent ==
    tpc = "idle" =>
        \A det \in AllDets(n_sites) :
            LET r == find(data, dets, det) IN
            /\ ~Recorded(det) => r = 0 - 1
            /\ r # 0 - 1 => (r \in 0 .. (Len(dets) - 1) /\
                             dets[r + 1] = FindWalk(data, 0, det, 1))

C6Witness ==
    /\ tpc = "idle"
    /\ \E det \in AllDets(n_sites) :
          LET leaf == FindWalk(data, 0, det, 1) IN
          /\ leaf # 0 - 1
          /\ leaf \notin Range(dets)
          /\ LowerBound(dets, 0, Len(dets), leaf) < Len(dets)
    /\ \E det \in AllDets(n_sites) : FindWalk(data, 0, det, 1) = 0 - 1

\* C7: dets is strictly ascending in every reachable state
C7Sorted == \A i \in 1 .. (Len(dets) - 1) : dets[i] < dets[i + 1]

\* C8 as stated: a push_back of a determinant that is already recorded or
\* whose leaf node already exists is rejected and appends nothing
C8Original ==
    (last.op = "push_back" /\ (last.wasPresent \/ last.leafExisted)) =>
        (~last.ok /\ tpc = "failed" /\ dets = last.dets0)

\* C8: push_back is rejected by the fatal assertion, and appends nothing,
\* exactly when dets is non-empty and the leaf index of the determinant is
\* not greater than dets.back(); otherwise the leaf is appended, even when
\* its node existed before the call
C8Amended ==
    last.op = "push_back" =>
        LET violates == Len(last.dets0) # 0 /\
                        last.leaf <= last.dets0[Len(last.dets0)]
        IN /\ violates => (tpc = "failed" /\ dets = last.dets0)
           /\ ~violates => (tpc = "idle" /\ dets = Append(last.dets0, last.leaf))

C8Witness ==
    /\ last.op = "push_back"
    /\ tpc = "failed"
    /\ last.wasPresent
    /\ dets = last.dets0

C8WitnessAccepted ==
    /\ last.op = "push_back"
    /\ last.leafExisted
    /\ tpc = "idle"
    /\ dets = Append(last.dets0, last.leaf)

\* C9: evaluate with a non-empty dets adds no node and no dets entry, and
\* leaves in vals, per determinant and in the order of dets, the amplitude
\* of the determinant if its leaf was reached and 0 otherwise
C9FixedList ==
    (last.op = "evaluate" /\ last.has_dets /\ tpc = "idle") =>
        /\ ~last.nodesAdded
        /\ dets = last.dets0
        /\ Len(vals) = Len(dets)
        /\ \A i \in 1 .. Len(dets) :
              LET hits == {k \in 1 .. Len(last.reached) :
                              last.reached[k].leaf = dets[i]}
              IN IF hits = {} THEN vals[i] = 0
                 ELSE \A k \in hits : vals[i] = last.reached[k].val

\* C29: whenever evaluate, entered with non-empty dets, stores an amplitude,
\* the leaf reached at the final depth is an element of dets and the store
\* goes to the slot of that element, inside vals
C29StoresOwnSlot ==
    (last.op = "evaluate" /\ last.has_dets) =>
        \A k \in 1 .. Len(last.reached) :
            LET r == last.reached[k] IN
            /\ r.leaf \in Range(last.dets0)
            /\ r.slot < Len(last.dets0)
            /\ last.dets0[r.slot + 1] = r.leaf

\* the branch labels from the root to a node
LabelPaths(n) == UNION {SeqsOfLen(Labels, k) : k \in 1 .. n}
HasPath(d, node) == \E p \in LabelPaths(n_sites) : FindWalk(d, 0, p, 1) = node
PathOf(d, node) == CHOOSE p \in LabelPaths(n_sites) : FindWalk(d, 0, p, 1) = node

\* the partial-amplitude map of the first i labels of a path
RECURSIVE PathPartial(_, _)
PathPartial(p, i) ==
    IF i = 0 THEN (Vacuum :> 1)
    ELSE ChildPartial(su2, n_sites, earg.mps, PathPartial(p, i - 1), p[i], i - 1)

\* a node survives: its partial map is not empty and not below the cutoff
\* (tested for the node visited last: pruned changes at that node only)
Survives(p) ==
    LET cmp == PathPartial(p, Len(p)) IN
    DOMAIN cmp # {} /\ ~BelowCutoff(n_sites, cmp, Len(p) - 1, earg.cutoff)

\* the nodes above the node of path p, the root left out
Ancestors(d, p) == {FindWalk(d, 0, SubSeq(p, 1, k), 1) : k \in 1 .. (Len(p) - 1)}

StackNodes == {est.ptrs[i][1] : i \in 1 .. Len(est.ptrs)}

\* the entry popped next
TopEntry ==
    LET top == est.ptrs[Len(est.ptrs)]
        d == top[3]
        p == PathOf(est.data, top[1])
    IN /\ HasPath(est.data, top[1])
       /\ Len(p) = d + 1 /\ p[d + 1] = top[2]
       /\ Len(est.partials) >= d + 1
       /\ est.partials[d + 1] = PathPartial(p, d)
       /\ \A i \in 1 .. d : est.det[i] = p[i]

DepthFirst ==
    tpc = "eval" =>
        /\ Len(est.ptrs) # 0 => TopEntry
        /\ \A v \in Range(est.visited) \cup StackNodes :
              /\ HasPath(est.data, v)
              /\ \A a \in Ancestors(est.data, PathOf(est.data, v)) :
                    a \in Range(est.visited) /\ a \notin est.pruned
        /\ Len(est.visited) # 0 =>
              LET v == est.visited[Len(est.visited)] IN
              /\ v \in est.pruned <=> ~Survives(PathOf(est.data, v))
              /\ est.pruned \subseteq Range(est.visited)
        /\ \A i, k \in 1 .. Len(est.visited) : i # k => est.visited[i] # est.visited[k]
        /\ \A i, k \in 1 .. Len(est.ptrs) : i # k => est.ptrs[i][1] # est.ptrs[k][1]
        /\ StackNodes \cap Range(est.visited) = {}
        /\ est.polls = Len(est.visited)

\* C30: whenever a stack entry (node, j, d) is about to be popped,
\* partials[d] is the partial map of the path from the root to the parent
\* of the node and det[0..d-1] are the labels of its ancestors; every node
\* visited or on the stack has only visited, surviving ancestors (non-empty
\* partial map, norm not below cutoff); no node is visited twice;
\* check_signal is polled once per visited node; the traversal reaches an
\* empty stack
C30DepthFirst ==
    /\ []DepthFirst
    /\ (tpc = "eval") ~> (tpc = "eval" /\ Len(est.ptrs) = 0)

\* a traversal of a two-site trie has pruned a node and is about to pop a
\* node of depth 1
C30Witness ==
    /\ tpc = "eval"
    /\ n_sites = 2
    /\ est.pruned # {}
    /\ Len(est.ptrs) # 0
    /\ est.ptrs[Len(est.ptrs)][3] = 1
    /\ \E v \in Range(est.visited) : v \notin est.pruned

----------------------------------------------------------------------------
(* Properties of the Wick engine *)

SingleTypes == {None, Inactive, Active, External}

\* the string C[i] D[j] with i of types ti and j of types tj
CreDes(ti, tj) ==
    WickString(<<WickTensor("C", <<WickIndex("i", ti)>>, non_symmetric,
                            CreationOperator),
                 WickTensor("D", <<WickIndex("j", tj)>>, non_symmetric,
                            DestroyOperator)>>,
               {}, 1)

\* -1 * D[j] C[i]  and  +1 * delta[i,j]
Reordered(ti, tj) ==
    WickString(<<WickTensor("D", <<WickIndex("j", tj)>>, non_symmetric,
                            DestroyOperator),
                 WickTensor("C", <<WickIndex("i", ti)>>, non_symmetric,
                            CreationOperator)>>,
               {}, -1)

Contracted(ti, tj) ==
    WickString(<<kronecker_delta(<<WickIndex("i", ti), WickIndex("j", tj)>>)>>,
               {}, 1)

\* expand() with its default arguments has returned for C[i] D[j]
ExpandedCreDes(ti, tj) ==
    /\ wpc = "expanded" /\ wlast.max_unctr = -1 /\ ~wlast.no_ctr
    /\ wx = <<CreDes(ti, tj)>>

\* C10 as stated: for every typing of i and j (untyped, Inactive, Active,
\* External) expand() of C[i] D[j] yields exactly the two terms
\* +1 * delta[i,j] and -1 * D[j] C[i].
C10Original ==
    \A ti \in SingleTypes, tj \in SingleTypes :
        ExpandedCreDes(ti, tj) =>
            /\ Len(wr) = 2
            /\ Range(wr) = {Contracted(ti, tj), Reordered(ti, tj)}

\* C10 amended: expand() of C[i] D[j] yields the two terms +1 * delta[i,j]
\* and -1 * D[j] C[i] exactly when i and j are both typed Inactive; for every
\* other typing (untyped, Active, External, or mixed) the string is already
\* in normal order and expand() yields the single term +1 * C[i] D[j].
C10Amended ==
    \A ti \in SingleTypes, tj \in SingleTypes :
        ExpandedCreDes(ti, tj) =>
            IF ti = Inactive /\ tj = Inactive
            THEN /\ Len(wr) = 2
                 /\ Range(wr) = {Contracted(ti, tj), Reordered(ti, tj)}
            ELSE wr = <<CreDes(ti, tj)>>

C10Witness ==
    /\ ExpandedCreDes(Inactive, Inactive)
    /\ wr = <<Reordered(Inactive, Inactive), Contracted(Inactive, Inactive)>>

----------------------------------------------------------------------------
(* Properties of complete_set *)

IsBijection(p, n) ==
    Len(p.data) = n /\ {p.data[i] : i \in 1 .. n} = 0 .. n - 1

NoDuplicates(v) == \A a, b \in 1 .. Len(v) : a # b => v[a] # v[b]

\* the product of two elements: data composed, signs xor-ed
Composed(a, b) ==
    [data |-> [i \in 1 .. Len(a.data) |-> a.data[b.data[i] + 1]],
     negative |-> (a.negative /\ ~ b.negative) \/ (~ a.negative /\ b.negative)]

Closed(v) == \A a, b \in Range(v) : Composed(a, b) \in Range(v)

\* C17: for every predefined generator set the set returned by complete_set
\* starts with the identity, has no element twice, holds only bijections,
\* holds the generators and is closed under the product; while the set is
\* generated it holds distinct bijections only and k is at most one past its
\* end, so that the generation ends after at most 2 * n! iterations.
C17Closure ==
    /\ ppc \in {"loop", "done"} =>
          /\ vwp[1] = Ident(pn)
          /\ NoDuplicates(vwp)
          /\ \A a \in 1 .. Len(vwp) : IsBijection(vwp[a], pn)
          /\ pk <= Len(vwp) + 1
    /\ ppc = "done" =>
          /\ Range(pdef) \subseteq Range(vwp)
          /\ Closed(vwp)
          /\ vwp = complete_set(pn, pdef)

\* complete_set has returned for a set of several generators with elements
\* that are not generators, some of them negative
C17Witness ==
    /\ ppc = "done"
    /\ Len(pdef) > 1
    /\ \E a \in Range(vwp) : a # Ident(pn) /\ a \notin Range(pdef)
    /\ \E a \in Range(vwp) : a.negative

----------------------------------------------------------------------------
(* Properties of one WickTensor *)

\* the two index types can label the same orbital
Compatible(a, b) == a = None \/ b = None \/ TypesAnd(a, b) # None

TypeCompatible(t, perm) ==
    \A i \in 1 .. Len(t.indices) :
        Compatible(t.indices[perm.data[i] + 1].types, t.indices[i].types)

\* C18: the perms of every constructed tensor holds type-compatible
\* permutations only and is closed under the product.
C18PermsGroup ==
    tt # NoTensor =>
        /\ \A k \in 1 .. Len(tt.perms) : TypeCompatible(tt, tt.perms[k])
        /\ Closed(tt.perms)

\* the index tuples reachable from t by a permutation of t.perms
Reachable(t) ==
    {[i \in 1 .. Len(t.indices) |-> t.indices[t.perms[k].data[i] + 1]] :
        k \in 1 .. Len(t.perms)}

\* C19: with t1 = t.sort(f), t1.sort(f) returns a tensor equal to t1 and
\* leaves f unchanged, and the indices of t1 are the smallest tuple reachable
\* from the indices of t by a permutation of t.perms.
C19SortIdempotent ==
    /\ Len(thist) >= 1 =>
          LET t == thist[1][1]
              t1 == IF Len(thist) = 1 THEN tt ELSE thist[2][1]
          IN  /\ t1.indices \in Reachable(t)
              /\ \A x \in Reachable(t) : ~ IndicesLess(x, t1.indices)
    /\ Len(thist) = 2 => TensorEq(tt, thist[2][1]) /\ tf = thist[2][2]

----------------------------------------------------------------------------
(* Properties of simplify_delta *)

\* the tensor at position p of x is a delta of a summed and a free index of
\* the same types
SummedFreeDelta(x, p) ==
    /\ x.tensors[p].type = KroneckerDelta
    /\ x.tensors[p].indices[1] # x.tensors[p].indices[2]
    /\ x.tensors[p].indices[1].types = x.tensors[p].indices[2].types
    /\ Cardinality({x.tensors[p].indices[1], x.tensors[p].indices[2]}
                       \cap x.ctr_indices) = 1

\* x without the delta at p, its summed index renamed to its free index
DeltaApplied(x, p) ==
    LET d == x.tensors[p].indices
        i == IF d[1] \in x.ctr_indices THEN d[1] ELSE d[2]
        j == IF d[1] \in x.ctr_indices THEN d[2] ELSE d[1]
        rest == SelectSeq([q \in 1 .. Len(x.tensors) |-> <<q, x.tensors[q]>>],
                          LAMBDA e : e[1] # p)
    IN  WickString(
            [q \in 1 .. Len(rest) |->
                [rest[q][2] EXCEPT !.indices =
                    [k \in 1 .. Len(@) |-> IF @[k] = i THEN j ELSE @[k]]]],
            x.ctr_indices \ {i}, x.factor)

Deltas(x) == {p \in 1 .. Len(x.tensors) : x.tensors[p].type = KroneckerDelta}

C13TypelessDelta ==
    spc = "simplify_delta" =>
        \A p \in Deltas(sx) :
            (/\ Deltas(sx) = {p}
             /\ sx.tensors[p].indices[1].types = None
             /\ sx.tensors[p].indices[2].types # None)
                => sr.factor = sx.factor

----------------------------------------------------------------------------
(* Properties of operator* *)

\* the tensors of the result taken from a and from b
PartA == SubSeq(sr.tensors, 1, Len(sx.tensors))
PartB == SubSeq(sr.tensors, Len(sx.tensors) + 1, Len(sr.tensors))

IndicesOf(tensors) == UNION {Range(tensors[q].indices) : q \in 1 .. Len(tensors)}

\* the indices the occurrences of idx in the tensors of x have become in part
ImagesOf(idx, x, part) ==
    {part[qk[1]].indices[qk[2]] :
        qk \in {qk \in (1 .. Len(x.tensors)) \X (1 .. 2) :
                    x.tensors[qk[1]].indices[qk[2]] = idx}}

\* the occurrences of the summed indices of x are renamed consistently, to
\* a summed index of the result that is the old one or is new in both operands
Consistent(x, part) ==
    \A idx \in x.ctr_indices \cap used_indices(x) :
        \E g \in sr.ctr_indices :
            /\ ImagesOf(idx, x, part) = {g}
            /\ g # idx => g \notin IndicesOf(sx.tensors) \cup IndicesOf(sy.tensors)
                                 \cup sx.ctr_indices \cup sy.ctr_indices

\* the indices that are not summed in x keep their names
FreeKept(x, part) ==
    \A q \in 1 .. Len(x.tensors) : \A k \in 1 .. Len(x.tensors[q].indices) :
        x.tensors[q].indices[k] \notin x.ctr_indices
            => part[q].indices[k] = x.tensors[q].indices[k]

\* C15: after r = a * b the summed indices of r split into those of a, which
\* occur in no tensor taken from b, and those of b, which occur in no tensor
\* taken from a; r has |ctr(a)| + |ctr(b)| summed indices; free indices keep
\* their names; every renamed index is replaced consistently by a new one.
C15NoCapture ==
    spc = "operator*" =>
        /\ Cardinality(sr.ctr_indices)
               = Cardinality(sx.ctr_indices) + Cardinality(sy.ctr_indices)
        /\ \E SA \in SUBSET sr.ctr_indices :
               /\ Cardinality(SA) = Cardinality(sx.ctr_indices)
               /\ SA \cap IndicesOf(PartB) = {}
               /\ (sr.ctr_indices \ SA) \cap IndicesOf(PartA) = {}
        /\ FreeKept(sx, PartA) /\ FreeKept(sy, PartB)
        /\ Consistent(sx, PartA) /\ Consistent(sy, PartB)
        /\ sr.factor = sx.factor * sy.factor

\* the same, for operands whose summed indices all occur in their tensors
C15Regular ==
    (/\ sx.ctr_indices \subseteq used_indices(sx)
     /\ sy.ctr_indices \subseteq used_indices(sy)) => C15NoCapture

----------------------------------------------------------------------------
(* Properties of substitute *)

\* the positions of sx that hold a defined tensor
Defined == {q \in 1 .. Len(sx.tensors) : sx.tensors[q].name \in DOMAIN sy}

\* the indices a new summed index may be
NewIndices == {WickIndex(nm, None) : nm \in Range(SubSeq(StrOrder, 9, Len(StrOrder)))}

\* sx with the defined tensor at q replaced by its definition on the actual
\* indices, with the summed index gs[q]
RECURSIVE Substituted(_, _)
Substituted(gs, q) ==
    IF q > Len(sx.tensors) THEN <<>>
    ELSE (IF q \in Defined
          THEN LET d == sy[sx.tensors[q].name].second[1]
                   wt == sx.tensors[q]
               IN  <<[d.tensors[1] EXCEPT !.indices = <<wt.indices[1], gs[q]>>],
                     [d.tensors[2] EXCEPT !.indices = <<gs[q], wt.indices[2]>>]>>
          ELSE <<sx.tensors[q]>>) \o Substituted(gs, q + 1)

\* C16: every summed index introduced by substitute differs from every index
\* of the enclosing term, free or summed, in any tensor and in ctr_indices,
\* and from the summed indices of the other substitutions in the string; the
\* argument indices of the definition are replaced by the actual ones.
C16FreshNames ==
    spc = "substitute" =>
        /\ Len(sr) = 1
        /\ \E gs \in [Defined -> NewIndices] :
              /\ \A q \in Defined :
                    gs[q] \notin used_indices(sx) \cup sx.ctr_indices
              /\ \A q1, q2 \in Defined : q1 # q2 => gs[q1] # gs[q2]
              /\ sr[1].tensors = Substituted(gs, 1)
              /\ sr[1].ctr_indices = sx.ctr_indices \cup {gs[q] : q \in Defined}

----------------------------------------------------------------------------
(* Properties of simplify_merge *)

Canonical(x) == quick_sort(abs(x))

\* C14: two terms with identical canonical forms are returned as one term
\* with the factor f1 + s * f2, s the product of the signs of the two
\* canonical forms, and as no term when that factor is 0; two terms with
\* different canonical forms are both returned; no two returned terms have
\* the same canonical form.
C14Merge ==
    (spc = "simplify_merge" /\ Len(sx) = 2) =>
        LET c1 == Canonical(sx[1])
            c2 == Canonical(sx[2])
            f == sx[1].factor + c1.factor * c2.factor * sx[2].factor
        IN  /\ abs_equal_to(c1, c2) =>
                  IF f = 0 THEN sr = <<>>
                  ELSE sr = <<[sx[1] EXCEPT !.factor = f]>>
            /\ ~ abs_equal_to(c1, c2) => Len(sr) = 2
            /\ \A a, b \in 1 .. Len(sr) :
                  a # b => ~ abs_equal_to(Canonical(sr[a]), Canonical(sr[b]))

\* simplify_merge has merged two different terms whose canonical forms are
\* identical up to the sign
C14Witness ==
    /\ spc = "simplify_merge"
    /\ Len(sx) = 2
    /\ ~ TensorsEq(sx[1].tensors, sx[2].tensors)
    /\ abs_equal_to(Canonical(sx[1]), Canonical(sx[2]))
    /\ Canonical(sx[1]).factor # Canonical(sx[2]).factor
    /\ Len(sr) = 1
    /\ sr[1].factor = 2 * sx[1].factor

----------------------------------------------------------------------------
(* Properties of expand followed by simplify *)

OneClass(t) == [n \in WickNames |-> t]

\* the parse of "SUM <ij> h[ij] C[i] D[j]" with i and j both of class t
HCD(t) ==
    ParseHString(1, {"i", "j"}, <<"i", "j">>, non_symmetric,
                 <<<<"C", "i">>, <<"D", "j">>>>, OneClass(t))

\* expand().simplify() of that string has returned
SimplifiedHCD(t) ==
    /\ wpc = "simplified"
    /\ wlast.max_unctr = -1 /\ wlast.no_ctr = FALSE
    /\ wx = <<HCD(t)>>

\* h[x,x] summed over the one index x, with no operator
TraceLike(x) ==
    /\ Len(x.tensors) = 1
    /\ x.tensors[1].name = "h"
    /\ x.tensors[1].indices[1] = x.tensors[1].indices[2]
    /\ x.ctr_indices = {x.tensors[1].indices[1]}

\* - h[i,j] D[j] C[i] summed over i and j
Residual(x, t) ==
    x = WickString(<<HCD(t).tensors[1], HCD(t).tensors[3], HCD(t).tensors[2]>>,
                   HCD(t).ctr_indices, -1)

TwoTerms(t) == Len(wr) = 2 /\ TraceLike(wr[1]) /\ wr[1].factor = 1 /\ Residual(wr[2], t)

\* the statement as written: two terms for each of the three classes
C11Original ==
    \A t \in {Inactive, Active, External} : SimplifiedHCD(t) => TwoTerms(t)

\* C11: expand().simplify() of SUM <ij> h[ij] C[i] D[j] gives the two terms
\* + SUM <j> h[jj] and - SUM <ij> h[ij] D[j] C[i] when i and j are Inactive;
\* when both are Active or both External the string already is in normal
\* order and the result is the one term + SUM <ij> h[ij] C[i] D[j]
C11Amended ==
    /\ SimplifiedHCD(Inactive) => TwoTerms(Inactive)
    /\ \A t \in {Active, External} : SimplifiedHCD(t) => wr = <<HCD(t)>>

C11Witness == SimplifiedHCD(Inactive) /\ Len(wr) = 2 /\ wr[2].factor = -1

----------------------------------------------------------------------------
(* Properties of the parallel regions *)

\* what the function returns when one thread runs all iterations in order
SingleThreaded(in) ==
    IF in.op = "normal_order_impl"
    THEN normal_order_impl(in.terms, in.max_unctr, in.no_ctr)
    ELSE simplify_merge(in.terms)

\* the slot that belongs to iteration k of thread tid
OwnSlot(in, tid, k) == IF in.op = "normal_order_impl" THEN tid + 1 ELSE k

\* C20: for every number of threads, every static schedule and every
\* interleaving, normal_order_impl and simplify_merge return the term list of
\* a single-threaded run; every write in the parallel region goes to the slot
\* of the writing thread (r[tid], sorted[k]), no slot is written by two
\* threads, and the result is formed only when every iteration is complete
C20ThreadIndependent ==
    /\ opc = "returned" => ores = SingleThreaded(oin) /\ AllDone
    /\ opc # "returned" => ores = <<>>
    /\ \A a \in 1 .. Len(olog) :
          /\ oin.own[olog[a].k] = olog[a].tid
          /\ olog[a].slot = OwnSlot(oin, olog[a].tid, olog[a].k)
          /\ \A b \in 1 .. Len(olog) :
                olog[a].slot = olog[b].slot => olog[a].tid = olog[b].tid

\* normal_order_impl has returned at least two terms from a region in which a
\* thread with a larger number wrote before a thread with a smaller number
C20Witness ==
    /\ opc = "returned"
    /\ oin.op = "normal_order_impl"
    /\ Len(ores) >= 2
    /\ \E a \in 1 .. Len(olog), b \in 1 .. Len(olog) :
          a < b /\ olog[a].tid > olog[b].tid

----------------------------------------------------------------------------
(* Properties of normal_order_impl_new *)

\* the positions of the operators of the pairs, pair after pair
RECURSIVE PairPositions(_)
PairPositions(pairs) ==
    IF pairs = <<>> THEN <<>>
    ELSE <<pairs[1][1], pairs[1][2]>> \o PairPositions(Tail(pairs))

\* the operators outside the pairs, in the order they are emitted
Uncontracted(pairs) ==
    SelectSeq(nc.tensor_idxs, LAMBDA p : p \notin Range(PairPositions(pairs)))

\* the original positions in the order: contracted pairs, then the rest
Arrangement(pairs) == PairPositions(pairs) \o Uncontracted(pairs)

\* the parity of a sequence of distinct positions
Parity(s) ==
    Cardinality({p \in (1 .. Len(s)) \X (1 .. Len(s)) :
                    p[1] < p[2] /\ s[p[1]] > s[p[2]]}) % 2

\* C22: every term emitted for a string of at most MaxOperators creation and
\* destroy operators has the factor of the string times the sign of the
\* permutation that puts each contracted pair side by side in front of the
\* uncontracted operators in their emitted order
C22Sign ==
    \A q \in 1 .. Len(nst.terms) :
        nst.terms[q].factor =
            IF Parity(Arrangement(nst.hist[q])) = 1 THEN - nc.x.factor
            ELSE nc.x.factor

\* a term with two contractions that cross, (0, 2) and (1, 3), was emitted
\* with the opposite sign of the string
C22Witness ==
    /\ npc = "done"
    /\ \E q \in 1 .. Len(nst.terms) :
          /\ nst.hist[q] = <<<<0, 2>>, <<1, 3>>>>
          /\ nst.terms[q].factor = - nc.x.factor

Disjoint(S) ==
    \A p \in S, q \in S : p # q => {p[1], p[2]} \cap {q[1], q[2]} = {}

\* the sets of contractions a call has to emit
AllowedSets ==
    {S \in SUBSET Range(nc.ctr_idxs) :
        /\ Disjoint(S)
        /\ nc.max_unctr # -1 => nc.n - 2 * Cardinality(S) <= nc.max_unctr}

\* one delta per pair, then the operators outside the pairs
TermOf(pairs) ==
    nc.ot \o [q \in 1 .. Len(pairs) |->
                kronecker_delta(<<nc.cd[pairs[q][1] + 1].indices[1],
                                  nc.cd[pairs[q][2] + 1].indices[1]>>)]
          \o [q \in 1 .. Len(Uncontracted(pairs)) |->
                nc.cd[Uncontracted(pairs)[q] + 1]]

EmittedSets == {Range(nst.hist[q]) : q \in 1 .. Len(nst.hist)}

TraversalSound ==
    /\ Len(nst.hist) = Len(nst.terms)
    /\ \A q \in 1 .. Len(nst.hist) :
          /\ Range(nst.hist[q]) \subseteq Range(nc.ctr_idxs)
          /\ Cardinality(Range(nst.hist[q])) = Len(nst.hist[q])
          /\ Disjoint(Range(nst.hist[q]))
          /\ nst.terms[q].tensors = TermOf(nst.hist[q])
    /\ Cardinality(EmittedSets) = Len(nst.hist)
    /\ (npc = "done" /\ ~nc.no_ctr) => EmittedSets = AllowedSets

OperatorsOf(x) == {q \in 1 .. Len(x.tensors) : IsCD(x.tensors[q])}
DeltasOf(x) == {q \in 1 .. Len(x.tensors) : x.tensors[q].type = KroneckerDelta}

\* C24: with max_unctr >= 0 every emitted term holds at most max_unctr
\* creation / destroy operators, and nothing is emitted for an odd number of
\* operators when max_unctr = 0; with no_ctr set no emitted term holds a
\* contraction and at most one term is emitted
C24Caps ==
    /\ nc.max_unctr >= 0 =>
          \A q \in 1 .. Len(nst.terms) :
              Cardinality(OperatorsOf(nst.terms[q])) <= nc.max_unctr
    /\ (nc.max_unctr = 0 /\ Len(nc.x.tensors) % 2 = 1) => nst.terms = <<>>
    /\ nc.no_ctr =>
          /\ Len(nst.terms) <= 1
          /\ \A q \in 1 .. Len(nst.terms) : DeltasOf(nst.terms[q]) = {}

\* a call with max_unctr = 2 on four operators has returned terms, all with
\* one contraction, and left out the term without contraction
C24Witness ==
    /\ npc = "done"
    /\ nc.max_unctr = 2 /\ nc.n = 4
    /\ Len(nst.terms) >= 2
    /\ \A q \in 1 .. Len(nst.terms) : Cardinality(DeltasOf(nst.terms[q])) >= 1

====
